---- MODULE Spec2Model ----
(***************************************************************************)
(* GEO downloader (geo_downloader/downloader.py, utils.py): the per-file   *)
(* retry wrapper _download_single_file around _download_with_progress, and *)
(* download_gse_dataset with get_gse_metadata and the two dispatchers,     *)
(* download_multiple_datasets with the status file, and the end of main    *)
(* (geo_downloader/cli.py).                                                *)
(*                                                                         *)
(* Sizes are byte counts.  A Python None in size_bytes is the value None;  *)
(* every comparison the code makes on it (None > 0, n < None) raises       *)
(* TypeError and is modelled where the code evaluates it.                  *)
(***************************************************************************)
EXTENDS Integers, Sequences, FiniteSets, TLC

\* Bounds of the model.
MaxFiles == 2
MaxSize == 2
MaxRetries == 2
MaxWorkers == 2
DatasetMaxRetries == 1
MaxDatasets == 5
LongRun == 11

None == -1
NoFile == -1

Tasks == 1..MaxFiles

VARIABLES
    config,            \* Config: max_retries, verify_integrity, parallel, workers, delay
    remote,            \* the remote suppl/ directory: raw files <<[filename, size]>>
    disk,              \* output_dir: local path -> size in bytes, or NoFile
    phase,             \* position of download_gse_dataset (or "single": one bare call)
    metadata,          \* the dict get_gse_metadata returns
    resolution,        \* what happened to the resolver's requests (history)
    mode,              \* dispatcher chosen by download_gse_dataset
    download_results,  \* the list the dispatcher builds
    collected,         \* futures already yielded by as_completed
    delays,            \* time.sleep(config["delay"]) calls of the sequential loop
    dataset_result,    \* the dict download_gse_dataset returns
    pc,                \* per task: position inside _download_single_file
    attempt,           \* per task: loop variable of the retry loop
    error_msg,         \* per task: str(e) of the last except block
    req,               \* per task: last request of _download_with_progress
    resp,              \* per task: what the server answered to it (history)
    result,            \* per task: the FileResult returned
    fails,             \* per task: attempts that ended in the except block (history)
    succeeded,         \* per task: an attempt ended without an exception (history)
    sleeps,            \* per task: time.sleep(config["retry_delay"]) calls
    calls,             \* per task: calls of _download_with_progress
    netCalls,          \* per task: urlopen calls
    entry,             \* per task: size of the local file when the call began
    gse_ids,           \* argument of download_multiple_datasets
    outcomes,          \* file results the datasets of this run can end with
    status_file,       \* content of output_dir/download_status.json
    download_status,   \* self.download_status
    run_results,       \* the list `results` of download_multiple_datasets
    run_i,             \* datasets the loop of download_multiple_datasets has processed
    run_pc,            \* position of main / download_multiple_datasets
    summary,           \* the dict download_multiple_datasets returns
    exit_code,         \* argument of sys.exit
    prior,             \* status_file when the run began (history)
    saves,             \* calls of save_download_status (history)
    save_ok,           \* the last call of save_download_status wrote the file (history)
    last_save,         \* status_file after the last completed write (history)
    call_args,         \* arguments of one call of a function on its own
    call_result,       \* what that call gave
    call_pc            \* position of that call

envVars == <<config, remote>>
dsVars == <<phase, metadata, resolution, mode, download_results, collected,
            delays, dataset_result>>
taskVars == <<pc, attempt, error_msg, req, resp, result, fails, succeeded, sleeps, calls,
              netCalls, entry>>
runVars == <<gse_ids, outcomes, status_file, download_status, run_results, run_i, run_pc,
             summary, exit_code, prior, saves, save_ok, last_save>>
callVars == <<call_args, call_result, call_pc>>
vars == <<config, remote, disk, phase, metadata, resolution, mode,
          download_results, collected, delays, dataset_result, pc, attempt,
          error_msg, req, resp, result, fails, succeeded, sleeps, calls, netCalls,
          entry, gse_ids, outcomes, status_file, download_status, run_results,
          run_i, run_pc, summary, exit_code, prior, saves, save_ok, last_save,
          call_args, call_result, call_pc>>

----------------------------------------------------------------------------
\* utils.safe_filename, on filenames as sequences of characters.

unsafe_chars == {"<", ">", ":", "\"", "/", "\\", "|", "?", "*"}

unnamed_file == <<"u", "n", "n", "a", "m", "e", "d", "_", "f", "i", "l", "e">>

RECURSIVE lstrip(_)
lstrip(s) ==
    IF s # <<>> /\ Head(s) \in {".", " "} THEN lstrip(Tail(s)) ELSE s

RECURSIVE rstrip(_)
rstrip(s) ==
    IF s # <<>> /\ s[Len(s)] \in {".", " "}
        THEN rstrip(SubSeq(s, 1, Len(s) - 1))
        ELSE s

\* Variant: the placeholder is substituted before the strip, not after it.
safe_filename_placeholder_before_strip(filename) ==
    LET replaced == [k \in 1..Len(filename) |->
                        IF filename[k] \in unsafe_chars THEN "_" ELSE filename[k]]
        filled == IF replaced = <<>> THEN unnamed_file ELSE replaced
    IN  rstrip(lstrip(filled))

safe_filename(filename) ==
    LET replaced == [k \in 1..Len(filename) |->
                        IF filename[k] \in unsafe_chars THEN "_" ELSE filename[k]]
        stripped == rstrip(lstrip(replaced))
    IN  IF stripped = <<>> THEN unnamed_file ELSE stripped

Digits == <<"1", "2", "3", "4", "5", "6", "7", "8", "9">>

\* Names of the raw files a listing can hold, one per task.
FileName(i) == <<"f", Digits[i], "?">>

local_path(file_info) == safe_filename(file_info.filename)

Paths == {safe_filename(FileName(i)) : i \in Tasks}

----------------------------------------------------------------------------
\* Values.

NoResult == [filename |-> <<>>, local_path |-> <<>>, status |-> "none",
             error |-> "None", size_bytes |-> 0]

NoReq == [resume_pos |-> 0, mode |-> "none", range |-> FALSE, existing |-> NoFile]

NoResp == "none"

NoDataset == [status |-> "none", error |-> "None", files |-> <<>>]

NoMetadata == [title |-> "N/A", raw_files |-> <<>>, has_raw_data |-> FALSE,
               error |-> "None"]

file_info(i) == metadata.raw_files[i]

expected_size(i) == file_info(i).size_bytes

----------------------------------------------------------------------------
\* _download_single_file and _download_with_progress.

verify_file_integrity(size, expected) == size # NoFile /\ size = expected

\* Variant: the sizes compared with the wrong operator.
short_circuit_wrong_compare(size, expected) ==
    size # NoFile /\ expected > 0 /\ size > expected

\* downloader.py:323-324 (evaluated only where expected is not None)
short_circuit(size, expected) ==
    size # NoFile /\ expected > 0 /\ verify_file_integrity(size, expected)

\* downloader.py:382-386
resume_pos(size, expected) ==
    IF size # NoFile /\ size < expected THEN size ELSE 0

\* Variant: the file is always opened for writing from the start.
open_mode_truncate(size, expected) == "wb"

\* Variant: a file that exists is always appended to.
open_mode_append_existing(size, expected) ==
    IF size # NoFile THEN "ab" ELSE "wb"

open_mode(size, expected) ==
    IF size # NoFile /\ size < expected THEN "ab" ELSE "wb"

\* Variant: one pass too few.
retries_left_off_by_one(i) == attempt[i] < config.max_retries - 1

\* downloader.py:336, 359
retries_left(i) == attempt[i] < config.max_retries

\* Variant: only a file that is too short is rejected.
size_mismatch_short_only(size, expected) ==
    expected > 0 /\ config.verify_integrity /\ (size = NoFile \/ size < expected)

\* downloader.py:341-343 (evaluated only where expected is not None)
size_mismatch(size, expected) ==
    expected > 0 /\ config.verify_integrity /\ ~verify_file_integrity(size, expected)

completed_result(i, size) ==
    [filename |-> file_info(i).filename, local_path |-> local_path(file_info(i)),
     status |-> "completed", error |-> "None", size_bytes |-> size]

\* Variant: the failure dict built with the status of the success dict.
failed_result_as_completed(i, e) ==
    [filename |-> file_info(i).filename, local_path |-> local_path(file_info(i)),
     status |-> "completed", error |-> e, size_bytes |-> 0]

failed_result(i, e) ==
    [filename |-> file_info(i).filename, local_path |-> local_path(file_info(i)),
     status |-> "failed", error |-> e, size_bytes |-> 0]

\* The except block of the retry loop: downloader.py:356-374.
except_handler(i, e) ==
    /\ error_msg' = [error_msg EXCEPT ![i] = e]
    /\ fails' = [fails EXCEPT ![i] = @ + 1]
    /\ IF retries_left(i)
          THEN /\ pc' = [pc EXCEPT ![i] = "sleep"]
               /\ result' = result
          ELSE /\ pc' = [pc EXCEPT ![i] = "done"]
               /\ result' = [result EXCEPT ![i] = failed_result(i, e)]

\* Variant: the task empties self.download_status as it begins.
download_single_file_check_clears_status(i) ==
    /\ pc[i] = "check"
    /\ LET size == disk[local_path(file_info(i))]
           expected == expected_size(i)
       IN  /\ entry' = [entry EXCEPT ![i] = size]
           /\ IF size # NoFile /\ expected = None
                 THEN \* None > 0 outside any try: the TypeError leaves the function
                      /\ pc' = [pc EXCEPT ![i] = "raised"]
                      /\ error_msg' = [error_msg EXCEPT ![i] = "TypeError"]
                      /\ result' = result
                 ELSE IF expected # None /\ short_circuit(size, expected)
                 THEN /\ pc' = [pc EXCEPT ![i] = "done"]
                      /\ result' = [result EXCEPT ![i] = completed_result(i, expected)]
                      /\ error_msg' = error_msg
                 ELSE /\ pc' = [pc EXCEPT ![i] = "attempt"]
                      /\ UNCHANGED <<result, error_msg>>
    /\ UNCHANGED <<attempt, req, resp, fails, succeeded, sleeps, calls, netCalls>>
    /\ download_status' = [kind |-> "dict", items |-> <<>>]
    /\ UNCHANGED <<gse_ids, outcomes, status_file, run_results, run_i, run_pc, summary,
                   exit_code, prior, saves, save_ok, last_save>>
    /\ UNCHANGED <<disk, envVars, callVars, dsVars>>

\* Entry of _download_single_file up to the short-circuit: downloader.py:314-333.
download_single_file_check(i) ==
    /\ pc[i] = "check"
    /\ LET size == disk[local_path(file_info(i))]
           expected == expected_size(i)
       IN  /\ entry' = [entry EXCEPT ![i] = size]
           /\ IF size # NoFile /\ expected = None
                 THEN \* None > 0 outside any try: the TypeError leaves the function
                      /\ pc' = [pc EXCEPT ![i] = "raised"]
                      /\ error_msg' = [error_msg EXCEPT ![i] = "TypeError"]
                      /\ result' = result
                 ELSE IF expected # None /\ short_circuit(size, expected)
                 THEN /\ pc' = [pc EXCEPT ![i] = "done"]
                      /\ result' = [result EXCEPT ![i] = completed_result(i, expected)]
                      /\ error_msg' = error_msg
                 ELSE /\ pc' = [pc EXCEPT ![i] = "attempt"]
                      /\ UNCHANGED <<result, error_msg>>
    /\ UNCHANGED <<attempt, req, resp, fails, succeeded, sleeps, calls, netCalls>>
    /\ UNCHANGED <<disk, envVars, runVars, callVars, dsVars>>

\* One pass of the loop calls _download_with_progress, which builds and sends
\* the request: downloader.py:336-338, 379-398.
download_with_progress_request(i) ==
    /\ pc[i] = "attempt"
    /\ calls' = [calls EXCEPT ![i] = @ + 1]
    /\ LET size == disk[local_path(file_info(i))]
           expected == expected_size(i)
       IN  IF size # NoFile /\ expected = None
              THEN \* existing_size < None
                   /\ except_handler(i, "TypeError")
                   /\ UNCHANGED <<req, netCalls>>
              ELSE /\ req' = [req EXCEPT ![i] =
                                [resume_pos |-> resume_pos(size, expected),
                                 mode |-> open_mode(size, expected),
                                 range |-> resume_pos(size, expected) > 0,
                                 existing |-> size]]
                   /\ netCalls' = [netCalls EXCEPT ![i] = @ + 1]
                   /\ pc' = [pc EXCEPT ![i] = "transfer"]
                   /\ UNCHANGED <<error_msg, fails, result>>
    /\ UNCHANGED <<attempt, resp, succeeded, sleeps, entry>>
    /\ UNCHANGED <<disk, envVars, runVars, callVars, dsVars>>

\* Bytes the server sends for the request: the rest of the file from the offset
\* when it honours Range (206), the whole file otherwise (200).
body_length(i, honoured) ==
    IF req[i].range /\ honoured
        THEN remote[i].size - req[i].resume_pos
        ELSE remote[i].size

\* History of a stream that ended without an exception: "rest" when the server
\* sent the file from the requested offset to its end, "short" when the
\* connection closed early, "whole" when it ignored the Range header.
response_kind(i, honoured, k) ==
    IF req[i].range /\ ~honoured THEN "whole"
    ELSE IF k = body_length(i, honoured) THEN "rest"
    ELSE "short"

\* The response and the chunk loop: downloader.py:398-434.
download_with_progress_stream(i) ==
    /\ pc[i] = "transfer"
    /\ LET path == local_path(file_info(i))
           expected == expected_size(i)
           base == IF req[i].mode = "ab" THEN disk[path] ELSE 0
       IN  \/ \* urlopen raises (URLError, HTTPError, timeout): no file is opened
              /\ except_handler(i, "URLError")
              /\ resp' = [resp EXCEPT ![i] = "error"]
              /\ disk' = disk
           \/ \* no Content-Length and no known size: int(None) raises TypeError
              /\ expected = None
              /\ except_handler(i, "TypeError")
              /\ resp' = [resp EXCEPT ![i] = "error"]
              /\ disk' = disk
           \/ \* the stream breaks (an exception) after k bytes were written
              \E honoured \in (IF req[i].range THEN BOOLEAN ELSE {FALSE}) :
              \E k \in 0..body_length(i, honoured) :
                  /\ except_handler(i, "IOError")
                  /\ resp' = [resp EXCEPT ![i] = "error"]
                  /\ disk' = [disk EXCEPT ![path] = base + k]
           \/ \* the stream ends after k bytes (short when the connection closed early)
              \E honoured \in (IF req[i].range THEN BOOLEAN ELSE {FALSE}) :
              \E k \in 0..body_length(i, honoured) :
                  /\ pc' = [pc EXCEPT ![i] = "verify"]
                  /\ resp' = [resp EXCEPT ![i] = response_kind(i, honoured, k)]
                  /\ disk' = [disk EXCEPT ![path] = base + k]
                  /\ UNCHANGED <<error_msg, fails, result>>
    /\ UNCHANGED <<attempt, req, succeeded, sleeps, calls, netCalls, entry>>
    /\ UNCHANGED <<envVars, runVars, callVars, dsVars>>

\* After the transfer returned: size check and the completed result,
\* downloader.py:340-354.
download_single_file_verify(i) ==
    /\ pc[i] = "verify"
    /\ LET size == disk[local_path(file_info(i))]
           expected == expected_size(i)
       IN  IF expected = None
              THEN \* None > 0 inside the try
                   /\ except_handler(i, "TypeError")
                   /\ succeeded' = succeeded
              ELSE IF size_mismatch(size, expected)
              THEN /\ except_handler(i, "ValueError")
                   /\ succeeded' = succeeded
              ELSE /\ pc' = [pc EXCEPT ![i] = "done"]
                   /\ result' = [result EXCEPT ![i] = completed_result(i, size)]
                   /\ succeeded' = [succeeded EXCEPT ![i] = TRUE]
                   /\ UNCHANGED <<error_msg, fails>>
    /\ UNCHANGED <<attempt, req, resp, sleeps, calls, netCalls, entry>>
    /\ UNCHANGED <<disk, envVars, runVars, callVars, dsVars>>

\* time.sleep(retry_delay), then the next pass: downloader.py:363, 336.
download_single_file_sleep(i) ==
    /\ pc[i] = "sleep"
    /\ sleeps' = [sleeps EXCEPT ![i] = @ + 1]
    /\ attempt' = [attempt EXCEPT ![i] = @ + 1]
    /\ pc' = [pc EXCEPT ![i] = "attempt"]
    /\ UNCHANGED <<error_msg, req, resp, result, fails, succeeded, calls, netCalls,
                   entry>>
    /\ UNCHANGED <<disk, envVars, runVars, callVars, dsVars>>

download_single_file(i) ==
    \/ download_single_file_check(i)
    \/ download_with_progress_request(i)
    \/ download_with_progress_stream(i)
    \/ download_single_file_verify(i)
    \/ download_single_file_sleep(i)

----------------------------------------------------------------------------
\* The run level: download_multiple_datasets, the status file, main.

\* A Python dict is its items in insertion order; a file is what it holds:
\* nothing ("missing"), text that is no JSON document ("invalid"), or a JSON
\* document ("scalar", "string", "array", "object" with its members in order).
EmptyDict == [kind |-> "dict", items |-> <<>>]

MissingFile == [kind |-> "missing", items |-> <<>>]

\* open(status_file, 'w') leaves an empty file; any proper prefix of the
\* document json.dump writes is no JSON document either.
TruncatedFile == [kind |-> "invalid", items |-> <<>>]

NoSummary == [kind |-> "none", total |-> 0, completed |-> 0, partial |-> 0,
              failed |-> 0, results |-> <<>>]

\* No function is called on its own.
CallIdle ==
    /\ call_args = <<>>
    /\ call_result = <<>>
    /\ call_pc = "idle"

\* No call of download_multiple_datasets is under way.
RunIdle ==
    /\ gse_ids = <<>>
    /\ outcomes = {}
    /\ status_file = MissingFile
    /\ download_status = EmptyDict
    /\ run_results = <<>>
    /\ run_i = 0
    /\ run_pc = "idle"
    /\ summary = NoSummary
    /\ exit_code = None
    /\ prior = MissingFile
    /\ saves = 0
    /\ save_ok = FALSE
    /\ last_save = MissingFile

----------------------------------------------------------------------------
\* One call of _download_single_file on its own: any file_info, any local
\* file, any retry and verification setting.

TaskInit(first) ==
    /\ pc = [i \in Tasks |-> IF i \in first THEN "check" ELSE "idle"]
    /\ attempt = [i \in Tasks |-> 0]
    /\ error_msg = [i \in Tasks |-> "None"]
    /\ req = [i \in Tasks |-> NoReq]
    /\ resp = [i \in Tasks |-> NoResp]
    /\ result = [i \in Tasks |-> NoResult]
    /\ fails = [i \in Tasks |-> 0]
    /\ succeeded = [i \in Tasks |-> FALSE]
    /\ sleeps = [i \in Tasks |-> 0]
    /\ calls = [i \in Tasks |-> 0]
    /\ netCalls = [i \in Tasks |-> 0]
    /\ entry = [i \in Tasks |-> NoFile]

InitFile ==
    /\ \E r \in 0..MaxRetries, v \in BOOLEAN :
          config = [max_retries |-> r, verify_integrity |-> v, parallel |-> FALSE,
                    workers |-> 1, delay |-> 1]
    /\ \E s \in 0..MaxSize : remote = <<[filename |-> FileName(1), size |-> s]>>
    /\ \E e \in {None, remote[1].size} :
          metadata = [title |-> "N/A",
                      raw_files |-> <<[filename |-> FileName(1), size_bytes |-> e]>>,
                      has_raw_data |-> TRUE, error |-> "None"]
    /\ \E s \in {NoFile} \cup 0..MaxSize :
          disk = [p \in Paths |-> IF p = safe_filename(FileName(1)) THEN s ELSE NoFile]
    /\ phase = "single"
    /\ resolution = [search |-> "none", listing |-> "none"]
    /\ mode = "none"
    /\ download_results = <<>>
    /\ collected = {}
    /\ delays = 0
    /\ dataset_result = NoDataset
    /\ TaskInit({1})
    /\ RunIdle
    /\ CallIdle

NextFile == download_single_file(1)

SpecFile == InitFile /\ [][NextFile]_vars

----------------------------------------------------------------------------
\* get_gse_metadata with _fetch_gse_summary, _parse_gse_summary and
\* _check_raw_files.  Each helper catches every Exception itself.

\* _fetch_gse_summary + _parse_gse_summary: the title, when a record was found.
summary_title(search) == IF search = "found" THEN "T" ELSE "N/A"

\* Variant: no listing is fetched when the search found no record.
check_raw_files_needs_record(search, listing, probes) ==
    IF listing = "ok" /\ search # "norecord"
        THEN [i \in 1..Len(remote) |->
                 [filename |-> remote[i].filename,
                  size_bytes |-> IF probes[i] THEN remote[i].size ELSE None]]
        ELSE <<>>

\* _check_raw_files: the listing's raw files, each with its probed size
\* (get_file_size gives None when the HEAD request fails).
check_raw_files(search, listing, probes) ==
    IF listing = "ok"
        THEN [i \in 1..Len(remote) |->
                 [filename |-> remote[i].filename,
                  size_bytes |-> IF probes[i] THEN remote[i].size ELSE None]]
        ELSE <<>>

\* downloader.py:43-84
get_gse_metadata ==
    /\ phase = "pending"
    /\ \E search \in {"error", "norecord", "found"}, listing \in {"error", "ok"} :
       \E probes \in [1..Len(remote) -> BOOLEAN] :
          /\ resolution' = [search |-> search, listing |-> listing]
          /\ metadata' = [title |-> summary_title(search),
                          raw_files |-> check_raw_files(search, listing, probes),
                          has_raw_data |-> Len(check_raw_files(search, listing, probes)) > 0,
                          error |-> "None"]
    /\ phase' = "resolved"
    /\ UNCHANGED <<mode, download_results, collected, delays, dataset_result>>
    /\ UNCHANGED <<disk, envVars, runVars, callVars, taskVars>>

\* Variant: the flag alone decides.
use_parallel_flag_only == config.parallel

\* downloader.py:242
use_parallel == config.parallel /\ Len(metadata.raw_files) > 1

\* download_gse_dataset after the resolver returned: downloader.py:223-247.
download_gse_dataset_dispatch ==
    /\ phase = "resolved"
    /\ IF metadata.error # "None"
          THEN /\ dataset_result' = [status |-> "failed", error |-> metadata.error,
                                     files |-> <<>>]
               /\ phase' = "returned"
               /\ UNCHANGED <<mode, pc>>
          ELSE IF ~metadata.has_raw_data
          THEN /\ dataset_result' = [status |-> "no_raw_data",
                                     error |-> "No raw data files found",
                                     files |-> <<>>]
               /\ phase' = "returned"
               /\ UNCHANGED <<mode, pc>>
          ELSE /\ phase' = "downloading"
               /\ mode' = IF use_parallel THEN "parallel" ELSE "sequential"
               /\ pc' = [i \in Tasks |->
                           IF i > Len(metadata.raw_files) THEN "idle"
                           ELSE IF use_parallel THEN "queued"
                           ELSE IF i = 1 THEN "check" ELSE "idle"]
               /\ dataset_result' = dataset_result
    /\ UNCHANGED <<metadata, resolution, download_results, collected, delays>>
    /\ UNCHANGED <<attempt, error_msg, req, resp, result, fails, succeeded, sleeps,
                   calls, netCalls, entry>>
    /\ UNCHANGED <<disk, envVars, runVars, callVars>>

\* Variant: the delay is slept after the last file too.
download_files_sequential_append_always_sleeps ==
    /\ phase = "downloading" /\ mode = "sequential"
    /\ LET i == Len(download_results) + 1
           n == Len(metadata.raw_files)
       IN  /\ i <= n
           /\ pc[i] = "done"
           /\ download_results' = Append(download_results, result[i])
           /\ delays' = IF config.delay > 0 THEN delays + 1 ELSE delays
           /\ pc' = IF i < n THEN [pc EXCEPT ![i + 1] = "check"] ELSE pc
    /\ UNCHANGED <<phase, metadata, resolution, mode, collected, dataset_result>>
    /\ UNCHANGED <<attempt, error_msg, req, resp, result, fails, succeeded, sleeps,
                   calls, netCalls, entry>>
    /\ UNCHANGED <<disk, envVars, runVars, callVars>>

\* _download_files_sequential, one pass of the loop after the call returned:
\* downloader.py:272-279.
download_files_sequential_append ==
    /\ phase = "downloading" /\ mode = "sequential"
    /\ LET i == Len(download_results) + 1
           n == Len(metadata.raw_files)
       IN  /\ i <= n
           /\ pc[i] = "done"
           /\ download_results' = Append(download_results, result[i])
           /\ delays' = IF i < n /\ config.delay > 0 THEN delays + 1 ELSE delays
           /\ pc' = IF i < n THEN [pc EXCEPT ![i + 1] = "check"] ELSE pc
    /\ UNCHANGED <<phase, metadata, resolution, mode, collected, dataset_result>>
    /\ UNCHANGED <<attempt, error_msg, req, resp, result, fails, succeeded, sleeps,
                   calls, netCalls, entry>>
    /\ UNCHANGED <<disk, envVars, runVars, callVars>>

\* An exception of the call at downloader.py:274 is caught nowhere up to the
\* caller of download_gse_dataset.
download_files_sequential_raise ==
    /\ phase = "downloading" /\ mode = "sequential"
    /\ LET i == Len(download_results) + 1
       IN  /\ i <= Len(metadata.raw_files)
           /\ pc[i] = "raised"
    /\ phase' = "raised"
    /\ UNCHANGED <<metadata, resolution, mode, download_results, collected,
                   delays, dataset_result>>
    /\ UNCHANGED <<disk, envVars, runVars, callVars, taskVars>>

running == {i \in Tasks : pc[i] \in {"check", "attempt", "transfer", "verify", "sleep"}}

\* Variant: a pool that starts every submitted task at once.
executor_run_unbounded(i) ==
    /\ phase = "downloading" /\ mode = "parallel"
    /\ pc[i] = "queued"
    /\ pc' = [pc EXCEPT ![i] = "check"]
    /\ UNCHANGED <<attempt, error_msg, req, resp, result, fails, succeeded, sleeps,
                   calls, netCalls, entry>>
    /\ UNCHANGED <<disk, envVars, runVars, callVars, dsVars>>

\* ThreadPoolExecutor(max_workers=workers): a free worker takes the oldest
\* queued task (downloader.py:289-294).
executor_run(i) ==
    /\ phase = "downloading" /\ mode = "parallel"
    /\ pc[i] = "queued"
    /\ \A j \in Tasks : pc[j] = "queued" => i <= j
    /\ Cardinality(running) < config.workers
    /\ pc' = [pc EXCEPT ![i] = "check"]
    /\ UNCHANGED <<attempt, error_msg, req, resp, result, fails, succeeded, sleeps,
                   calls, netCalls, entry>>
    /\ UNCHANGED <<disk, envVars, runVars, callVars, dsVars>>

\* downloader.py:303-308
synthetic_result(i) ==
    [filename |-> file_info(i).filename, local_path |-> <<>>, status |-> "failed",
     error |-> error_msg[i], size_bytes |-> file_info(i).size_bytes]

\* as_completed yields a finished future: downloader.py:297-308.
as_completed_collect(i) ==
    /\ phase = "downloading" /\ mode = "parallel"
    /\ i \notin collected
    /\ pc[i] \in {"done", "raised"}
    /\ collected' = collected \cup {i}
    /\ download_results' =
          Append(download_results,
                 IF pc[i] = "done" THEN result[i] ELSE synthetic_result(i))
    /\ UNCHANGED <<phase, metadata, resolution, mode, delays, dataset_result>>
    /\ UNCHANGED <<disk, envVars, runVars, callVars, taskVars>>

successful(results) ==
    Cardinality({k \in 1..Len(results) : results[k].status = "completed"})

\* downloader.py:250-258
derive_status(results) ==
    IF successful(results) = Len(results) THEN "completed"
    ELSE IF successful(results) > 0 THEN "partial"
    ELSE "failed"

\* Variant: the call returns with the first result collected.
download_gse_dataset_return_first_result ==
    /\ phase = "downloading"
    /\ Len(download_results) >= 1
    /\ dataset_result' = [status |-> derive_status(download_results),
                          error |-> "None", files |-> download_results]
    /\ phase' = "returned"
    /\ UNCHANGED <<metadata, resolution, mode, download_results, collected, delays>>
    /\ UNCHANGED <<disk, envVars, runVars, callVars, taskVars>>

\* downloader.py:249-266
download_gse_dataset_return ==
    /\ phase = "downloading"
    /\ Len(download_results) = Len(metadata.raw_files)
    /\ dataset_result' = [status |-> derive_status(download_results),
                          error |-> "None", files |-> download_results]
    /\ phase' = "returned"
    /\ UNCHANGED <<metadata, resolution, mode, download_results, collected, delays>>
    /\ UNCHANGED <<disk, envVars, runVars, callVars, taskVars>>

\* download_gse_dataset(gse_id) on one dataset: a remote directory of up to
\* MaxFiles raw files, an output directory where each may already be present.
Init ==
    /\ \E r \in 0..DatasetMaxRetries, v \in BOOLEAN, p \in BOOLEAN :
       \E w \in (IF p THEN 1..MaxWorkers ELSE {1}) :
          config = [max_retries |-> r, verify_integrity |-> v, parallel |-> p,
                    workers |-> w, delay |-> 1]
    /\ \E n \in 0..MaxFiles :
          remote = [i \in 1..n |-> [filename |-> FileName(i), size |-> MaxSize]]
    /\ disk \in [Paths -> {NoFile, MaxSize}]
    /\ phase = "pending"
    /\ metadata = NoMetadata
    /\ resolution = [search |-> "none", listing |-> "none"]
    /\ mode = "none"
    /\ download_results = <<>>
    /\ collected = {}
    /\ delays = 0
    /\ dataset_result = NoDataset
    /\ TaskInit({})
    /\ RunIdle
    /\ CallIdle

Next ==
    \/ get_gse_metadata
    \/ download_gse_dataset_dispatch
    \/ download_files_sequential_append
    \/ download_files_sequential_raise
    \/ \E i \in Tasks : executor_run(i)
    \/ \E i \in Tasks : as_completed_collect(i)
    \/ download_gse_dataset_return
    \/ \E i \in Tasks : phase = "downloading" /\ download_single_file(i)

Spec == Init /\ [][Next]_vars

\* download_gse_dataset with parallel off, on a directory of one-byte raw files:
\* only _download_files_sequential runs.
InitSeq ==
    /\ \E r \in 0..DatasetMaxRetries, v \in BOOLEAN :
          config = [max_retries |-> r, verify_integrity |-> v, parallel |-> FALSE,
                    workers |-> 1, delay |-> 1]
    /\ \E n \in 0..MaxFiles :
          remote = [i \in 1..n |-> [filename |-> FileName(i), size |-> 1]]
    /\ disk \in [Paths -> {NoFile, 1}]
    /\ phase = "pending"
    /\ metadata = NoMetadata
    /\ resolution = [search |-> "none", listing |-> "none"]
    /\ mode = "none"
    /\ download_results = <<>>
    /\ collected = {}
    /\ delays = 0
    /\ dataset_result = NoDataset
    /\ TaskInit({})
    /\ RunIdle
    /\ CallIdle

NextSeq ==
    \/ get_gse_metadata
    \/ download_gse_dataset_dispatch
    \/ download_files_sequential_append
    \/ download_files_sequential_raise
    \/ download_gse_dataset_return
    \/ \E i \in Tasks : phase = "downloading" /\ download_single_file(i)

SpecSeq == InitSeq /\ [][NextSeq]_vars

\* download_gse_dataset with parallel on, on a directory of two or more
\* one-byte raw files: only _download_files_parallel runs.
InitPar ==
    /\ \E r \in 0..DatasetMaxRetries, w \in 1..MaxWorkers :
          config = [max_retries |-> r, verify_integrity |-> TRUE, parallel |-> TRUE,
                    workers |-> w, delay |-> 1]
    /\ \E n \in 2..MaxFiles :
          remote = [i \in 1..n |-> [filename |-> FileName(i), size |-> 1]]
    /\ disk \in [Paths -> {NoFile, 1}]
    /\ phase = "pending"
    /\ metadata = NoMetadata
    /\ resolution = [search |-> "none", listing |-> "none"]
    /\ mode = "none"
    /\ download_results = <<>>
    /\ collected = {}
    /\ delays = 0
    /\ dataset_result = NoDataset
    /\ TaskInit({})
    /\ RunIdle
    /\ CallIdle

NextPar ==
    \/ get_gse_metadata
    \/ download_gse_dataset_dispatch
    \/ \E i \in Tasks : executor_run(i)
    \/ \E i \in Tasks : as_completed_collect(i)
    \/ download_gse_dataset_return
    \/ \E i \in Tasks : phase = "downloading" /\ download_single_file(i)

SpecPar == InitPar /\ [][NextPar]_vars

----------------------------------------------------------------------------
\* json.dump / json.load on the values the status mapping holds.  A JSON
\* value is null, a string or a number; None is written as null.

JNull == [t |-> "null", s |-> "", n |-> 0]

JStr(x) == [t |-> "string", s |-> x, n |-> 0]

JNum(x) == [t |-> "number", s |-> "", n |-> x]

\* A value that is a str or None (None is "None" in the results above).
dump_optional_str(e) == IF e = "None" THEN JNull ELSE JStr(e)

dump_optional_int(x) == IF x = None THEN JNull ELSE JNum(x)

dump_file(f) ==
    [filename |-> JStr(f.filename), status |-> JStr(f.status),
     error |-> dump_optional_str(f.error),
     size_bytes |-> dump_optional_int(f.size_bytes)]

dump_result(r) ==
    [gse_id |-> JStr(r.gse_id), status |-> JStr(r.status),
     error |-> dump_optional_str(r.error),
     files |-> [k \in 1..Len(r.files) |-> dump_file(r.files[k])]]

\* json.dump(self.download_status, f): one member per item, in order.
json_dump(d) ==
    [kind |-> "object",
     items |-> [k \in 1..Len(d.items) |->
                  [key |-> d.items[k].key, value |-> dump_result(d.items[k].value)]]]

\* Variant: a null is read back as the string "null".
load_optional_str_keeps_null(j) == IF j.t = "null" THEN "null" ELSE j.s

load_optional_str(j) == IF j.t = "null" THEN "None" ELSE j.s

load_optional_int(j) == IF j.t = "null" THEN None ELSE j.n

load_file(j) ==
    [filename |-> j.filename.s, status |-> j.status.s,
     error |-> load_optional_str(j.error),
     size_bytes |-> load_optional_int(j.size_bytes)]

load_result(j) ==
    [gse_id |-> j.gse_id.s, status |-> j.status.s,
     error |-> load_optional_str(j.error),
     files |-> [k \in 1..Len(j.files) |-> load_file(j.files[k])]]

\* json.load(f) on a JSON document: an object gives a dict, an array a list,
\* a string a str, any other document a scalar (None, a number, a bool).
json_load(doc) ==
    IF doc.kind = "object"
        THEN [kind |-> "dict",
              items |-> [k \in 1..Len(doc.items) |->
                           [key |-> doc.items[k].key,
                            value |-> load_result(doc.items[k].value)]]]
    ELSE IF doc.kind = "array" THEN [kind |-> "list", items |-> <<>>]
    ELSE IF doc.kind = "string" THEN [kind |-> "str", items |-> <<>>]
    ELSE [kind |-> "scalar", items |-> <<>>]

dict_keys(d) == {d.items[k].key : k \in 1..Len(d.items)}

dict_get(d, key) ==
    d.items[CHOOSE k \in 1..Len(d.items) : d.items[k].key = key].value

\* Variant: an identifier already in the mapping keeps its old result.
dict_set_keeps_first(d, key, value) ==
    IF key \in dict_keys(d)
        THEN d
        ELSE [d EXCEPT !.items = Append(d.items, [key |-> key, value |-> value])]

\* d[key] = value
dict_set(d, key, value) ==
    IF key \in dict_keys(d)
        THEN [d EXCEPT !.items = [k \in 1..Len(d.items) |->
                                    IF d.items[k].key = key
                                        THEN [key |-> key, value |-> value]
                                        ELSE d.items[k]]]
        ELSE [d EXCEPT !.items = Append(d.items, [key |-> key, value |-> value])]

\* a == b on two Python values
dict_eq(a, b) ==
    /\ a.kind = b.kind
    /\ dict_keys(a) = dict_keys(b)
    /\ \A key \in dict_keys(a) : dict_get(a, key) = dict_get(b, key)

----------------------------------------------------------------------------
\* download_multiple_datasets and the end of main.

GseIds == <<"GSE1", "GSE2", "GSE3", "GSE4", "GSE5", "GSE6", "GSE7", "GSE8", "GSE9",
            "GSE10", "GSE11", "GSE12">>

\* Argument lists: up to MaxDatasets distinct identifiers, and one list that
\* names an identifier twice.
InputLists ==
    {[k \in 1..n |-> GseIds[k]] : n \in 0..MaxDatasets}
        \cup {<<GseIds[1], GseIds[2], GseIds[1]>>}

FileOk == [filename |-> FileName(1), status |-> "completed", error |-> "None",
           size_bytes |-> 1]

FileFailed == [filename |-> FileName(1), status |-> "failed", error |-> "URLError",
               size_bytes |-> 0]

FileSynthetic == [filename |-> FileName(2), status |-> "failed",
                  error |-> "TypeError", size_bytes |-> None]

\* The file results of one dataset: none, all completed, some, none completed.
FileLists == {<<>>, <<FileOk>>, <<FileOk, FileSynthetic>>, <<FileFailed>>}

\* A long list of identifiers, on datasets whose one raw file downloads.
LongList == [k \in 1..LongRun |-> GseIds[k]]

LongRunFileLists == {<<FileOk>>}

\* What download_gse_dataset(gse_id) returns on these file results
\* (downloader.py:232-266).
dataset_returns(gse_id, files) ==
    IF files = <<>>
        THEN [gse_id |-> gse_id, status |-> "no_raw_data",
              error |-> "No raw data files found", files |-> <<>>]
        ELSE [gse_id |-> gse_id, status |-> derive_status(files),
              error |-> "None", files |-> files]

\* The status file before the run: none, a corrupt one, a JSON document that
\* is no object, or the mapping an earlier run saved.
PriorFiles ==
    {MissingFile, TruncatedFile,
     [kind |-> "scalar", items |-> <<>>],
     [kind |-> "array", items |-> <<>>],
     [kind |-> "string", items |-> <<>>],
     json_dump(dict_set(EmptyDict, GseIds[1],
                        dataset_returns(GseIds[1], <<FileFailed>>)))}

\* Variant: the mapping of an earlier run is not taken over.
load_download_status_starts_empty(file) ==
    IF file.kind = "missing" THEN download_status
    ELSE IF file.kind \in {"invalid", "scalar", "object"} THEN EmptyDict
    ELSE json_load(file)

\* load_download_status: the value of self.download_status after the call.
\* json.load raises on a corrupt file and len() raises on a scalar, both inside
\* the try; a list or a str passes len() and is kept.
load_download_status(file) ==
    IF file.kind = "missing" THEN download_status
    ELSE IF file.kind \in {"invalid", "scalar"} THEN EmptyDict
    ELSE json_load(file)

count_status(rs, statuses) ==
    Cardinality({k \in 1..Len(rs) : rs[k].status \in statuses})

\* Variant: failed counts the results with status failed only.
run_summary_failed_only(rs) ==
    [kind |-> "summary", total |-> Len(rs),
     completed |-> count_status(rs, {"completed"}),
     partial |-> count_status(rs, {"partial"}),
     failed |-> count_status(rs, {"failed"}),
     results |-> rs]

\* downloader.py:500-522
run_summary(rs) ==
    [kind |-> "summary", total |-> Len(rs),
     completed |-> count_status(rs, {"completed"}),
     partial |-> count_status(rs, {"partial"}),
     failed |-> count_status(rs, {"failed", "no_raw_data"}),
     results |-> rs]

\* cli.py:316-334 on what download_multiple_datasets returned: results["failed"]
\* is a KeyError on {"error": ...}, caught at line 332.
main_exit_code(returned) ==
    IF returned.kind = "error" THEN 1
    ELSE IF returned.failed = 0 THEN 0
    ELSE 1

\* The process has not ended.
alive == exit_code = None

running_run ==
    run_pc \in {"called", "loop", "save_periodic", "write_periodic", "save_final",
                "write_final"}

\* downloader.py:465-482
download_multiple_datasets_begin ==
    /\ alive
    /\ run_pc = "called"
    /\ IF gse_ids = <<>>
          THEN /\ summary' = [NoSummary EXCEPT !.kind = "error"]
               /\ run_pc' = "returned"
               /\ UNCHANGED download_status
          ELSE /\ download_status' = load_download_status(status_file)
               /\ run_pc' = "loop"
               /\ UNCHANGED summary
    /\ UNCHANGED <<gse_ids, outcomes, status_file, run_results, run_i, exit_code, prior,
                   saves, save_ok, last_save>>
    /\ UNCHANGED <<disk, envVars, dsVars, taskVars, callVars>>

\* Variant: only the 5th dataset is followed by a save.
save_due_once(i) == i = 5

\* downloader.py:494
save_due(i) == i % 5 = 0

\* One pass of the loop, downloader.py:484-495: the call returns a result,
\* which is appended and stored under its identifier (a TypeError when
\* self.download_status is a list or a str).
download_multiple_datasets_iterate ==
    /\ alive
    /\ run_pc = "loop"
    /\ run_i < Len(gse_ids)
    /\ \E files \in outcomes :
          LET r == dataset_returns(gse_ids[run_i + 1], files)
          IN  /\ run_results' = Append(run_results, r)
              /\ IF download_status.kind = "dict"
                    THEN /\ download_status' = dict_set(download_status, r.gse_id, r)
                         /\ run_i' = run_i + 1
                         /\ run_pc' = IF save_due(run_i + 1) THEN "save_periodic"
                                      ELSE IF run_i + 1 = Len(gse_ids) THEN "save_final"
                                      ELSE "loop"
                    ELSE /\ run_pc' = "raised"
                         /\ UNCHANGED <<download_status, run_i>>
    /\ UNCHANGED <<gse_ids, outcomes, status_file, summary, exit_code, prior, saves,
                   save_ok, last_save>>
    /\ UNCHANGED <<disk, envVars, dsVars, taskVars, callVars>>

\* download_gse_dataset raises (downloader.py:487): nothing in
\* download_multiple_datasets catches it.
download_multiple_datasets_raise ==
    /\ alive
    /\ run_pc = "loop"
    /\ run_i < Len(gse_ids)
    /\ run_pc' = "raised"
    /\ UNCHANGED <<gse_ids, outcomes, status_file, download_status, run_results, run_i,
                   summary, exit_code, prior, saves, save_ok, last_save>>
    /\ UNCHANGED <<disk, envVars, dsVars, taskVars, callVars>>

\* Where download_multiple_datasets goes on after save_download_status
\* returned: the loop, the final save, or the summary and the return.
after_save_pc ==
    IF run_pc \in {"save_final", "write_final"} THEN "returned"
    ELSE IF run_i = Len(gse_ids) THEN "save_final"
    ELSE "loop"

after_save_summary ==
    IF run_pc \in {"save_final", "write_final"} THEN run_summary(run_results)
    ELSE summary

\* save_download_status, open(status_file, 'w'): downloader.py:438-439.  The
\* file is truncated; an error is caught at line 441.
save_download_status_open ==
    /\ alive
    /\ run_pc \in {"save_periodic", "save_final"}
    /\ saves' = saves + 1
    /\ save_ok' = FALSE
    /\ \/ /\ status_file' = TruncatedFile
          /\ run_pc' = IF run_pc = "save_periodic" THEN "write_periodic"
                       ELSE "write_final"
          /\ UNCHANGED summary
       \/ /\ run_pc' = after_save_pc
          /\ summary' = after_save_summary
          /\ UNCHANGED status_file
    /\ UNCHANGED <<gse_ids, outcomes, download_status, run_results, run_i, exit_code,
                   prior, last_save>>
    /\ UNCHANGED <<disk, envVars, dsVars, taskVars, callVars>>

\* Variant: an error while writing leaves download_multiple_datasets.
save_download_status_write_raises ==
    /\ alive
    /\ run_pc \in {"write_periodic", "write_final"}
    /\ \/ /\ status_file' = json_dump(download_status)
          /\ last_save' = json_dump(download_status)
          /\ save_ok' = TRUE
          /\ run_pc' = after_save_pc
          /\ summary' = after_save_summary
       \/ /\ run_pc' = "raised"
          /\ UNCHANGED <<status_file, last_save, save_ok, summary>>
    /\ UNCHANGED <<gse_ids, outcomes, download_status, run_results, run_i, exit_code,
                   prior, saves>>
    /\ UNCHANGED <<disk, envVars, dsVars, taskVars, callVars>>

\* save_download_status, json.dump: downloader.py:440.  An error while
\* writing is caught at line 441 and leaves what was written so far.
save_download_status_write ==
    /\ alive
    /\ run_pc \in {"write_periodic", "write_final"}
    /\ \/ /\ status_file' = json_dump(download_status)
          /\ last_save' = json_dump(download_status)
          /\ save_ok' = TRUE
       \/ UNCHANGED <<status_file, last_save, save_ok>>
    /\ run_pc' = after_save_pc
    /\ summary' = after_save_summary
    /\ UNCHANGED <<gse_ids, outcomes, download_status, run_results, run_i, exit_code,
                   prior, saves>>
    /\ UNCHANGED <<disk, envVars, dsVars, taskVars, callVars>>

\* KeyboardInterrupt while download_multiple_datasets runs: cli.py:329-331.
main_interrupted ==
    /\ alive
    /\ running_run
    /\ exit_code' = 1
    /\ UNCHANGED <<gse_ids, outcomes, status_file, download_status, run_results, run_i,
                   run_pc, summary, prior, saves, save_ok, last_save>>
    /\ UNCHANGED <<disk, envVars, dsVars, taskVars, callVars>>

\* cli.py:316-334 after the call returned or raised.
main_exit ==
    /\ alive
    /\ run_pc \in {"returned", "raised"}
    /\ exit_code' = IF run_pc = "raised" THEN 1 ELSE main_exit_code(summary)
    /\ UNCHANGED <<gse_ids, outcomes, status_file, download_status, run_results, run_i,
                   run_pc, summary, prior, saves, save_ok, last_save>>
    /\ UNCHANGED <<disk, envVars, dsVars, taskVars, callVars>>

\* main at cli.py:315: a fresh GEODownloader, a list of identifiers, any
\* earlier state of the status file.
InitRun ==
    /\ config = [max_retries |-> 0, verify_integrity |-> TRUE, parallel |-> FALSE,
                 workers |-> 1, delay |-> 1]
    /\ remote = <<>>
    /\ disk = [p \in Paths |-> NoFile]
    /\ phase = "pending"
    /\ metadata = NoMetadata
    /\ resolution = [search |-> "none", listing |-> "none"]
    /\ mode = "none"
    /\ download_results = <<>>
    /\ collected = {}
    /\ delays = 0
    /\ dataset_result = NoDataset
    /\ TaskInit({})
    /\ \/ gse_ids \in InputLists /\ outcomes = FileLists
       \/ gse_ids = LongList /\ outcomes = LongRunFileLists
    /\ status_file \in PriorFiles
    /\ prior = status_file
    /\ last_save = status_file
    /\ download_status = EmptyDict
    /\ run_results = <<>>
    /\ run_i = 0
    /\ run_pc = "called"
    /\ summary = NoSummary
    /\ exit_code = None
    /\ saves = 0
    /\ save_ok = FALSE
    /\ CallIdle

NextRun ==
    \/ download_multiple_datasets_begin
    \/ download_multiple_datasets_iterate
    \/ download_multiple_datasets_raise
    \/ save_download_status_open
    \/ save_download_status_write
    \/ main_interrupted
    \/ main_exit

SpecRun == InitRun /\ [][NextRun]_vars

----------------------------------------------------------------------------
\* Properties.

Files == 1..Len(metadata.raw_files)

started(i) == i \in Files /\ pc[i] \notin {"idle", "queued", "check"}

\* C1 (retry bound): a call whose attempts all ended in the except block made
\* exactly max_retries + 1 calls of _download_with_progress, slept retry_delay
\* exactly max_retries times (once after every failed attempt but the last),
\* and returned status failed with the last error message and size_bytes 0.
C1_RetryBound ==
    \A i \in Files :
        /\ calls[i] <= config.max_retries + 1
        /\ sleeps[i] <= config.max_retries
        /\ pc[i] \in {"attempt", "transfer", "verify"} => sleeps[i] = fails[i]
        /\ pc[i] = "sleep" => sleeps[i] = fails[i] - 1
        /\ (pc[i] = "done" /\ calls[i] > 0 /\ ~succeeded[i]) =>
              /\ calls[i] = config.max_retries + 1
              /\ fails[i] = config.max_retries + 1
              /\ sleeps[i] = config.max_retries
              /\ result[i].status = "failed"
              /\ result[i].error = error_msg[i]
              /\ result[i].error # "None"
              /\ result[i].size_bytes = 0

C1_Witness ==
    /\ pc[1] = "done" /\ result[1].status = "failed"
    /\ config.max_retries = 2 /\ calls[1] = 3 /\ sleeps[1] = 2

\* C2: when the first k attempts failed (k <= max_retries) and attempt k + 1
\* ended without an exception, the call has returned status completed after
\* exactly k + 1 calls of _download_with_progress, and it makes no further
\* one; a completed result that came out of the loop came from such an attempt.
C2_SuccessEndsLoop ==
    \A i \in Files :
        /\ succeeded[i] =>
              /\ pc[i] = "done"
              /\ result[i].status = "completed"
              /\ calls[i] = fails[i] + 1
              /\ fails[i] <= config.max_retries
        /\ (result[i].status = "completed" /\ calls[i] > 0) => succeeded[i]

C2_Witness ==
    /\ succeeded[1] /\ config.max_retries = 2 /\ fails[1] = 2 /\ calls[1] = 3
    /\ result[1].status = "completed"

\* The local file was there with the expected size when the call began.  The
\* code holds a size as known when it is a positive number (size_bytes of None
\* or 0 is printed as "Unknown", downloader.py:200).
present(i) ==
    entry[i] # NoFile /\ expected_size(i) > 0 /\ entry[i] = expected_size(i)

\* C3 (short-circuit): a call that found the local file present with the known
\* expected size made no urlopen call and no call of _download_with_progress,
\* left the file as it was and returned status completed; a dataset whose raw
\* files were all present ends completed with no transfer call at all.
C3_ShortCircuit ==
    /\ \A i \in Files :
          (started(i) /\ present(i)) =>
              /\ pc[i] = "done"
              /\ result[i].status = "completed"
              /\ result[i].size_bytes = expected_size(i)
              /\ calls[i] = 0 /\ netCalls[i] = 0
              /\ disk[local_path(file_info(i))] = entry[i]
    /\ (phase = "returned" /\ Files # {} /\ \A i \in Files : present(i)) =>
          /\ dataset_result.status = "completed"
          /\ Len(dataset_result.files) = Len(metadata.raw_files)
          /\ \A i \in Files : calls[i] = 0 /\ netCalls[i] = 0

C3_Witness ==
    /\ phase = "returned" /\ Len(metadata.raw_files) = 2
    /\ \A i \in Files : present(i) /\ netCalls[i] = 0
    /\ dataset_result.status = "completed"

\* C4: with verify_integrity set and the expected size known, a result with
\* status completed exists only while the local file has the expected size, and
\* its size_bytes is that size; an attempt whose transfer ended with another
\* size ends in the except block like any failed attempt: a retry follows
\* while attempts remain, the failed result after the last one.
C4_VerifiedSize ==
    \A i \in Files :
        (config.verify_integrity /\ expected_size(i) > 0) =>
            /\ result[i].status = "completed" =>
                  /\ disk[local_path(file_info(i))] = expected_size(i)
                  /\ result[i].size_bytes = disk[local_path(file_info(i))]
            /\ (pc[i] = "sleep" /\ error_msg[i] = "ValueError") =>
                  /\ fails[i] <= config.max_retries
                  /\ disk[local_path(file_info(i))] # expected_size(i)
            /\ (pc[i] = "done" /\ ~succeeded[i] /\ error_msg[i] = "ValueError") =>
                  /\ result[i].status = "failed"
                  /\ calls[i] = config.max_retries + 1
                  /\ disk[local_path(file_info(i))] # expected_size(i)

C4_Witness ==
    /\ config.verify_integrity /\ expected_size(1) > 0
    /\ error_msg[1] = "ValueError" /\ fails[1] = 1
    /\ result[1].status = "completed" /\ calls[1] = 2
    /\ disk[local_path(file_info(1))] = expected_size(1)

\* The last request was made with a partial local file: S < E, E known.
resuming(i) ==
    /\ req[i].mode # "none"
    /\ req[i].existing # NoFile
    /\ expected_size(i) # None
    /\ req[i].existing < expected_size(i)

\* C5 (resume): with a local file of size S < E, the transfer asks for the
\* content from offset S (a Range header whenever S > 0), opens the file for
\* appending, and once the server has sent the rest of the file the local
\* file has exactly size E.
C5_Resume ==
    \A i \in Files :
        resuming(i) =>
            /\ req[i].resume_pos = req[i].existing
            /\ req[i].range = (req[i].existing > 0)
            /\ req[i].mode = "ab"
            /\ (pc[i] = "verify" /\ resp[i] = "rest") =>
                  disk[local_path(file_info(i))] = expected_size(i)

C5_Witness ==
    /\ resuming(1) /\ req[1].existing = 1 /\ req[1].range
    /\ pc[1] = "verify" /\ resp[1] = "rest"
    /\ disk[local_path(file_info(1))] = 2

\* C6: a file whose size probe failed (size_bytes None) is downloaded like any
\* other: no step of the call fails on the missing size, with or without a
\* local file, and the call ends completed when its transfer succeeded.
C6_UnknownSizeDownloads ==
    \A i \in Files :
        expected_size(i) = None =>
            /\ pc[i] # "raised"
            /\ error_msg[i] # "TypeError"
            /\ (pc[i] = "done" /\ resp[i] = "rest") => result[i].status = "completed"

\* C7: no error leaves a component as an exception: _download_single_file
\* always returns a FileResult and download_gse_dataset a DatasetResult.
C7_NothingRaised ==
    /\ phase # "raised"
    /\ \A i \in Tasks : pc[i] # "raised"

resolved == phase \in {"resolved", "downloading", "returned", "raised"}

\* C8: after a network or parse error in the search, the summary or the
\* directory listing, the metadata carries an error, and the dataset ends
\* failed with that error and no file results.
C8_ResolutionErrorFails ==
    (resolved /\ (resolution.search = "error" \/ resolution.listing = "error")) =>
        /\ metadata.error # "None"
        /\ phase # "downloading"
        /\ phase = "returned" =>
              /\ dataset_result.status = "failed"
              /\ dataset_result.error = metadata.error
              /\ dataset_result.files = <<>>

\* The status of a returned dataset against its n file results, s of them
\* completed.
derived(ds) ==
    LET n == Len(ds.files)
        s == successful(ds.files)
    IN  /\ ds.status \in {"completed", "partial", "failed", "no_raw_data"}
        /\ ds.status = "completed" <=> (n >= 1 /\ s = n)
        /\ ds.status = "partial" <=> (0 < s /\ s < n)
        /\ ds.status = "failed" <=> (n >= 1 /\ s = 0)
        /\ ds.status = "no_raw_data" <=> Len(metadata.raw_files) = 0
        /\ Len(metadata.raw_files) > 0 => n = Len(metadata.raw_files)

\* C9: every call of download_gse_dataset ends with exactly one status:
\* completed iff n >= 1 and s = n, partial iff 0 < s < n, failed iff n >= 1
\* and s = 0, no_raw_data iff the resolver found no raw file.
C9_StatusDerivation ==
    phase \in {"returned", "raised"} => (phase = "returned" /\ derived(dataset_result))

\* The derivation on the calls that do return.
ReturnedStatusDerived ==
    phase = "returned" => derived(dataset_result)

\* C10 as stated: no record in the catalog gives an empty raw file list and no
\* error, and the dataset ends no_raw_data with no transfer attempted.
C10_NoRecordNoRawData ==
    (resolved /\ resolution.search = "norecord") =>
        /\ metadata.error = "None"
        /\ metadata.raw_files = <<>>
        /\ phase = "returned" => dataset_result.status = "no_raw_data"
        /\ \A i \in Tasks : calls[i] = 0 /\ netCalls[i] = 0

\* C10 as amended: no record in the catalog gives no error and leaves the
\* descriptive fields at their defaults; the directory listing is fetched all
\* the same and alone decides the raw file list.  The dataset ends no_raw_data
\* with no transfer attempted exactly when that list is empty; otherwise its
\* files are dispatched and a returned result has one entry per file.
C10_NoRecordListingDecides ==
    (resolved /\ resolution.search = "norecord") =>
        /\ metadata.error = "None"
        /\ metadata.title = "N/A"
        /\ Len(metadata.raw_files) =
              (IF resolution.listing = "ok" THEN Len(remote) ELSE 0)
        /\ metadata.has_raw_data = (Len(metadata.raw_files) > 0)
        /\ (phase = "returned" /\ metadata.raw_files = <<>>) =>
              /\ dataset_result.status = "no_raw_data"
              /\ dataset_result.files = <<>>
              /\ \A i \in Tasks : calls[i] = 0 /\ netCalls[i] = 0
        /\ (phase = "returned" /\ metadata.raw_files # <<>>) =>
              /\ dataset_result.status \in {"completed", "partial", "failed"}
              /\ Len(dataset_result.files) = Len(metadata.raw_files)

C10_Witness ==
    /\ phase = "returned" /\ resolution.search = "norecord"
    /\ resolution.listing = "ok" /\ metadata.raw_files # <<>>
    /\ dataset_result.status = "completed"
    /\ \E i \in Files : netCalls[i] > 0

\* The file results of a returned dataset: one per raw file of the listing,
\* each completed or failed.
one_per_file(ds) ==
    /\ Len(ds.files) = Len(metadata.raw_files)
    /\ \A i \in Files :
          Cardinality({k \in 1..Len(ds.files) :
                          ds.files[k].filename = metadata.raw_files[i].filename}) = 1
    /\ \A k \in 1..Len(ds.files) : ds.files[k].status \in {"completed", "failed"}

\* C11: for every dataset with n >= 1 raw files the dispatcher, sequential or
\* parallel, hands back exactly n file results, exactly one per raw file, each
\* completed or failed: never short, never a duplicate.
C11_OnePerFile ==
    (phase \in {"returned", "raised"} /\ Len(metadata.raw_files) >= 1) =>
        (phase = "returned" /\ one_per_file(dataset_result))

\* The same on the calls whose dispatcher does return.
ReturnedOnePerFile ==
    (phase = "returned" /\ Len(metadata.raw_files) >= 1) => one_per_file(dataset_result)

\* The collected result of task i in the parallel aggregate.
collected_result(i) ==
    download_results[CHOOSE k \in 1..Len(download_results) :
                        download_results[k].filename = file_info(i).filename]

\* C12: in parallel mode a task that raised instead of returning a result is
\* recorded as a result with status failed, the error text, and size_bytes 0.
C12_SyntheticZeroSize ==
    \A i \in Files :
        (mode = "parallel" /\ i \in collected /\ pc[i] = "raised") =>
            /\ collected_result(i).status = "failed"
            /\ collected_result(i).error = error_msg[i]
            /\ collected_result(i).size_bytes = 0

\* The part of C12 that the code keeps: status failed and the error text.
SyntheticFailedWithError ==
    \A i \in Files :
        (mode = "parallel" /\ i \in collected /\ pc[i] = "raised") =>
            /\ collected_result(i).status = "failed"
            /\ collected_result(i).error = error_msg[i]
            /\ collected_result(i).error # "None"

\* C13: in parallel mode one task is submitted per raw file (none for any
\* other index, none twice), and at no time are more than `workers` of them
\* in progress.
C13_BoundedPool ==
    (phase = "downloading" /\ mode = "parallel") =>
        /\ \A i \in Files : pc[i] # "idle"
        /\ \A i \in Tasks \ Files : pc[i] = "idle"
        /\ \A i \in Files : pc[i] = "queued" => (calls[i] = 0 /\ i \notin collected)
        /\ Cardinality(running) <= config.workers

C13_Witness ==
    /\ phase = "downloading" /\ mode = "parallel"
    /\ config.workers = 1 /\ Len(metadata.raw_files) = 2
    /\ pc[1] = "transfer" /\ pc[2] = "queued"

----------------------------------------------------------------------------
\* Properties of the run.

\* What a reader of the status file finds in it.
persisted == IF status_file.kind = "object" THEN json_load(status_file) ELSE EmptyDict

\* Datasets finished in this run whose outcome the status file does not hold.
missing_outcomes ==
    {k \in 1..run_i :
        \/ gse_ids[k] \notin dict_keys(persisted)
        \/ dict_get(persisted, gse_ids[k]) # dict_get(download_status, gse_ids[k])}

\* The process ended while the loop was at a dataset, no save under way.
crashed_between_saves == exit_code # None /\ run_pc = "loop"

\* save_download_status is called after every 5th dataset and once more
\* after the last one.
save_cadence ==
    /\ run_pc = "loop" => saves = run_i \div 5
    /\ run_pc \in {"save_periodic", "write_periodic"} =>
          (run_i % 5 = 0 /\ saves \in {run_i \div 5 - 1, run_i \div 5})
    /\ run_pc = "save_periodic" => saves = run_i \div 5 - 1
    /\ run_pc = "save_final" => (run_i = Len(gse_ids) /\ saves = run_i \div 5)
    /\ run_pc = "returned" /\ gse_ids # <<>> =>
          (run_i = Len(gse_ids) /\ saves = run_i \div 5 + 1)

SecondPeriodicSave ==
    /\ run_pc = "loop" /\ run_i = 10 /\ saves = 2 /\ save_ok
    /\ missing_outcomes = {}

\* C15: the status file is never observable partially written: at every
\* moment, and so wherever the process is interrupted or crashes, a save
\* under way included, the file holds the complete document of the last
\* completed save (before the first one, what it held when the run began).
C15_NeverPartiallyWritten ==
    status_file = last_save

\* The file differs from the last completed save only during or after a call
\* of save_download_status that opened it and did not finish writing.
PartialOnlyByUnfinishedSave ==
    status_file # last_save =>
        /\ status_file = TruncatedFile
        /\ saves > 0 /\ ~save_ok

\* load_download_status has run.
loaded == run_pc # "called" /\ gse_ids # <<>>

\* C16: whatever the status file held, after the load the run status is a
\* mapping: the empty one when the file was missing, corrupt, or a JSON
\* document that is no identifier-to-result mapping, the saved one otherwise;
\* so the loop never aborts when it stores a result in it.
C16_LoadTolerant ==
    loaded =>
        /\ download_status.kind = "dict"
        /\ (prior.kind # "object" /\ run_i = 0) => download_status = EmptyDict
        /\ (prior.kind = "object" /\ run_i = 0) =>
              dict_eq(download_status, json_load(prior))

\* The same, but for a file that holds a JSON array or a JSON string.
LoadTolerantUnlessListOrStr ==
    (loaded /\ prior.kind \notin {"array", "string"}) =>
        /\ download_status.kind = "dict"
        /\ (prior.kind # "object" /\ run_i = 0) => download_status = EmptyDict
        /\ (prior.kind = "object" /\ run_i = 0) =>
              dict_eq(download_status, json_load(prior))
        /\ (exit_code # None /\ run_pc = "returned") => summary.kind = "summary"

last_mention(k) == \A j \in (k + 1)..Len(gse_ids) : gse_ids[j] # gse_ids[k]

\* The status file maps every identifier of the input to the result the
\* summary lists last for it.
persisted_matches_summary ==
    /\ Len(summary.results) = Len(gse_ids)
    /\ \A k \in 1..Len(gse_ids) :
          last_mention(k) =>
              /\ gse_ids[k] \in dict_keys(persisted)
              /\ dict_get(persisted, gse_ids[k]) = summary.results[k]

summarised == run_pc = "returned" /\ summary.kind = "summary"

\* total and the order of the results, as C19 has them.
summary_lists_input ==
    /\ summary.total = Len(gse_ids)
    /\ Len(summary.results) = Len(gse_ids)
    /\ \A k \in 1..Len(gse_ids) : summary.results[k].gse_id = gse_ids[k]
    /\ summary.results = run_results

\* C19 as stated: total is the number of identifiers processed, the results
\* are in input order, and completed, partial and failed are the numbers of
\* results whose status is exactly completed, partial and failed.
C19_LiteralCounts ==
    summarised =>
        /\ summary_lists_input
        /\ summary.completed = count_status(summary.results, {"completed"})
        /\ summary.partial = count_status(summary.results, {"partial"})
        /\ summary.failed = count_status(summary.results, {"failed"})

\* C19 as amended: the same, but failed is the number of results whose status
\* is failed or no_raw_data, so that the three counts add up to total.
C19_FailedCountsNoRawData ==
    summarised =>
        /\ summary_lists_input
        /\ summary.completed = count_status(summary.results, {"completed"})
        /\ summary.partial = count_status(summary.results, {"partial"})
        /\ summary.failed =
              count_status(summary.results, {"failed"})
                  + count_status(summary.results, {"no_raw_data"})
        /\ summary.completed + summary.partial + summary.failed = summary.total

C19_Witness ==
    /\ summarised /\ summary.total = 4
    /\ summary.completed = 1 /\ summary.partial = 1 /\ summary.failed = 2
    /\ count_status(summary.results, {"no_raw_data"}) = 1
    /\ count_status(summary.results, {"failed"}) = 1

\* C20: the process exits with status 0 only when every dataset of the run
\* completed; a run with a failed or a partial dataset exits non-zero.
C20_ZeroOnlyWhenAllCompleted ==
    exit_code = 0 =>
        /\ summarised
        /\ Len(run_results) = Len(gse_ids)
        /\ \A k \in 1..Len(run_results) : run_results[k].status = "completed"

\* What the exit status does tell: 0 exactly when the call returned a summary
\* with no failed and no no_raw_data dataset; partial datasets do not count.
ZeroWhenNoneFailed ==
    exit_code # None =>
        (exit_code = 0 <=>
            /\ summarised
            /\ \A k \in 1..Len(run_results) :
                  run_results[k].status \in {"completed", "partial"})

\* The process was interrupted while download_multiple_datasets ran.
interrupted == exit_code # None /\ running_run

\* C21: an interrupt during download_multiple_datasets ends the run at a safe
\* point and with a non-zero exit status: no save is cut short, and the
\* datasets finished so far are reported, in a summary or in the status file.
C21_InterruptStopsSafely ==
    interrupted =>
        /\ exit_code # 0
        /\ status_file = last_save
        /\ (summary.kind = "summary" \/ missing_outcomes = {})

\* What an interrupt does give: exit status 1 at once, wherever the run is,
\* with no summary and no save.
InterruptExitsNonZero ==
    interrupted =>
        /\ exit_code = 1
        /\ summary = NoSummary
        /\ run_pc \in {"write_periodic", "write_final"} => status_file = TruncatedFile

\* After the process ended no further dataset is started and nothing is written.
InterruptStartsNothing ==
    [][exit_code # None =>
          /\ run_i' = run_i /\ run_results' = run_results
          /\ status_file' = status_file /\ exit_code' = exit_code]_vars

saving == run_pc \in {"save_periodic", "write_periodic", "save_final", "write_final"}

\* C22: a call of save_download_status that fails to open or to write the
\* file, at a periodic save or at the final one, does not abort the run: the
\* loop goes on with the next dataset, the final save is still attempted, and
\* after a failed final save the summary of all datasets is still returned.
C22_SaveFailureDoesNotAbort ==
    [][(saving /\ exit_code' = None) =>
          /\ run_pc' # "raised"
          /\ run_i' = run_i /\ run_results' = run_results
          /\ download_status' = download_status
          /\ (~save_ok' /\ run_pc' \notin {"write_periodic", "write_final"}) =>
                /\ run_pc \in {"save_periodic", "write_periodic"} =>
                      run_pc' = (IF run_i = Len(gse_ids) THEN "save_final" ELSE "loop")
                /\ run_pc \in {"save_final", "write_final"} =>
                      /\ run_pc' = "returned"
                      /\ summary' = run_summary(run_results)
                      /\ summary'.total = Len(gse_ids)]_vars

\* The save after the 5th dataset failed while writing, the final save failed
\* too, and the run returned the summary of all its datasets.
C22_Witness ==
    /\ run_pc = "returned" /\ Len(gse_ids) = LongRun
    /\ saves = LongRun \div 5 + 1 /\ ~save_ok
    /\ last_save = prior /\ status_file = TruncatedFile
    /\ summary.kind = "summary" /\ summary.total = LongRun

----------------------------------------------------------------------------
\* Configuration: cli.create_config_from_args, Config, Config.validate and
\* the two ways a run is started, main() and the exported GEODownloader class.

MaxCfgValue == 1

\* Python values a configuration key can hold.  A str is any non-empty one;
\* a float is written by the whole number it equals.
PyNone == [type |-> "NoneType", v |-> 0]
PyStr == [type |-> "str", v |-> 0]
PyInt(n) == [type |-> "int", v |-> n]
PyFloat(n) == [type |-> "float", v |-> n]
PyBool(b) == [type |-> "bool", v |-> IF b THEN 1 ELSE 0]

\* The key is not in the dict.
Absent == [type |-> "absent", v |-> 0]

\* isinstance(x, int): bool is a subclass of int.
isinstance_int(x) == x.type \in {"int", "bool"}

\* isinstance(x, (int, float))
isinstance_number(x) == x.type \in {"int", "bool", "float"}

\* bool(x), as `if args.workers:` takes it
truthy(x) ==
    CASE x.type = "NoneType" -> FALSE
      [] x.type = "str" -> TRUE
      [] OTHER -> x.v # 0

CfgInts == {PyInt(n) : n \in -1..MaxCfgValue}
CfgFloats == {PyFloat(n) : n \in -1..MaxCfgValue}

\* What a JSON document can give for a key.
JsonValues == CfgInts \cup {PyFloat(1), PyStr, PyNone, PyBool(TRUE)}

\* max(1, int(os.cpu_count() * 0.75)) on a machine of two cores
cpu_workers == 1

\* Config.DEFAULT_CONFIG after Config.__init__ has set the workers
DEFAULT_CONFIG ==
    [workers |-> PyInt(cpu_workers), delay |-> PyFloat(0), chunk_size |-> PyInt(1),
     max_retries |-> PyInt(1), retry_delay |-> PyInt(1)]

ConfigKeys == DOMAIN DEFAULT_CONFIG

\* Config.update: every key of the dict replaces the stored value.
update(c, d) == [k \in ConfigKeys |-> IF d[k] = Absent THEN c[k] ELSE d[k]]

\* Config.validate: "ValueError" when it raises, "None" when it returns.
validate(c) ==
    IF ~isinstance_int(c.workers) \/ c.workers.v < 1 THEN "ValueError"
    ELSE IF ~isinstance_number(c.delay) \/ c.delay.v < 0 THEN "ValueError"
    ELSE IF ~isinstance_int(c.chunk_size) \/ c.chunk_size.v < 1 THEN "ValueError"
    ELSE IF ~isinstance_int(c.max_retries) \/ c.max_retries.v < 0 THEN "ValueError"
    ELSE IF ~isinstance_number(c.retry_delay) \/ c.retry_delay.v < 0 THEN "ValueError"
    ELSE "None"

NoConfigFile == [k \in ConfigKeys |-> Absent]

\* JSON objects of the --config file: the keys the command line overrides
\* (delay) and the one it may leave alone (workers).
ConfigFiles ==
    {[NoConfigFile EXCEPT !.workers = w, !.delay = d] :
        w \in JsonValues \cup {Absent}, d \in {Absent, PyInt(-1)}}

\* argparse namespaces: --workers is None when not given, the other options
\* always have a value (their default when not given).
Namespaces ==
    [entry : {"main"}, workers : CfgInts \cup {PyNone}, delay : CfgFloats,
     chunk_size : CfgInts, max_retries : CfgInts, retry_delay : CfgFloats,
     config : ConfigFiles]

\* Config(config_dict) as a program using the package builds it.
ConfigDicts ==
    [entry : {"api"}, workers : JsonValues \cup {Absent}, delay : CfgFloats,
     chunk_size : CfgInts, max_retries : CfgInts, retry_delay : CfgFloats,
     config : {NoConfigFile}]

\* The config_updates dict of create_config_from_args.
config_updates(args) ==
    [workers |-> IF truthy(args.workers) THEN args.workers ELSE Absent,
     delay |-> args.delay, chunk_size |-> args.chunk_size,
     max_retries |-> args.max_retries, retry_delay |-> args.retry_delay]

\* The Config create_config_from_args has built when it calls validate.
merged_config(args) == update(update(DEFAULT_CONFIG, args.config), config_updates(args))

\* create_config_from_args: the file first, the command line over it, then
\* validate; a ValueError ends the process with status 1.
create_config_from_args ==
    /\ call_pc = "main"
    /\ LET c == merged_config(call_args)
           rejected == validate(c) = "ValueError"
       IN /\ call_result' = [config |-> c, requests |-> 0,
                             exit |-> IF rejected THEN 1 ELSE None]
          /\ call_pc' = IF rejected THEN "rejected" ELSE "configured"
    /\ UNCHANGED <<call_args, disk, envVars, dsVars, taskVars, runVars>>

\* main returns without downloading: --dry-run, or the user declines.
main_no_download ==
    /\ call_pc = "configured"
    /\ call_args.entry = "main"
    /\ call_result' = [call_result EXCEPT !.exit = 0]
    /\ call_pc' = "cancelled"
    /\ UNCHANGED <<call_args, disk, envVars, dsVars, taskVars, runVars>>

\* GEODownloader(Config(config_dict)): the constructor stores the config.
GEODownloader_init ==
    /\ call_pc = "api"
    /\ call_result' = [config |-> update(DEFAULT_CONFIG, call_args), requests |-> 0,
                       exit |-> None]
    /\ call_pc' = "configured"
    /\ UNCHANGED <<call_args, disk, envVars, dsVars, taskVars, runVars>>

\* download_multiple_datasets begins: get_gse_metadata opens the first URL.
first_request ==
    /\ call_pc = "configured"
    /\ call_result' = [call_result EXCEPT !.requests = 1]
    /\ call_pc' = "running"
    /\ UNCHANGED <<call_args, disk, envVars, dsVars, taskVars, runVars>>

\* No dataset is being downloaded.
DatasetIdle ==
    /\ config = [max_retries |-> 0, verify_integrity |-> TRUE, parallel |-> FALSE,
                 workers |-> 1, delay |-> 1]
    /\ remote = <<>>
    /\ disk = [p \in Paths |-> NoFile]
    /\ phase = "pending"
    /\ metadata = NoMetadata
    /\ resolution = [search |-> "none", listing |-> "none"]
    /\ mode = "none"
    /\ download_results = <<>>
    /\ collected = {}
    /\ delays = 0
    /\ dataset_result = NoDataset
    /\ TaskInit({})

InitCfg ==
    /\ DatasetIdle
    /\ RunIdle
    /\ call_args \in Namespaces \cup ConfigDicts
    /\ call_result = <<>>
    /\ call_pc = call_args.entry

NextCfg ==
    \/ create_config_from_args
    \/ main_no_download
    \/ GEODownloader_init
    \/ first_request

SpecCfg == InitCfg /\ [][NextCfg]_vars

\* The stated domains of the five values.
in_domain(c) ==
    /\ isinstance_int(c.workers) /\ c.workers.v >= 1
    /\ isinstance_number(c.delay) /\ c.delay.v >= 0
    /\ isinstance_int(c.chunk_size) /\ c.chunk_size.v >= 1
    /\ isinstance_int(c.max_retries) /\ c.max_retries.v >= 0
    /\ isinstance_number(c.retry_delay) /\ c.retry_delay.v >= 0

configured == call_pc \in {"rejected", "configured", "cancelled", "running"}

\* C23: a run whose configuration has a value outside its stated domain is
\* rejected before any network request is issued.
C23_RejectedBeforeNetwork ==
    (configured /\ ~in_domain(call_result.config)) =>
        /\ call_pc = "rejected"
        /\ call_result.requests = 0

\* Started by main(), such a run ends with status 1 and no request; a
\* configuration inside the domains is not rejected.
MainRejectsBeforeNetwork ==
    (configured /\ call_args.entry = "main") =>
        /\ in_domain(call_result.config) <=> call_pc # "rejected"
        /\ call_pc = "rejected" => call_result.requests = 0 /\ call_result.exit = 1

\* --workers 0 is not a rejected value: the option counts as not given.
WorkersZeroTaken ==
    /\ call_pc = "running"
    /\ call_args.entry = "main"
    /\ call_args.workers = PyInt(0)
    /\ call_result.config.workers = PyInt(cpu_workers)

----------------------------------------------------------------------------
\* Raw-file classification: the test _check_raw_files makes on every name
\* of the directory listing.

MaxParts == 2

ascii_uppercase ==
    <<"A", "B", "C", "D", "E", "F", "G", "H", "I", "J", "K", "L", "M", "N", "O", "P", "Q", "R", "S", "T", "U", "V", "W", "X", "Y", "Z">>

ascii_lowercase ==
    <<"a", "b", "c", "d", "e", "f", "g", "h", "i", "j", "k", "l", "m", "n", "o", "p", "q", "r", "s", "t", "u", "v", "w", "x", "y", "z">>

\* str.lower, one character
lower_char(c) ==
    IF \E n \in 1..26 : ascii_uppercase[n] = c
    THEN ascii_lowercase[CHOOSE n \in 1..26 : ascii_uppercase[n] = c]
    ELSE c

\* str.lower
lower(s) == [n \in 1..Len(s) |-> lower_char(s[n])]

\* keyword in s
contains(s, keyword) ==
    \E n \in 1..(Len(s) - Len(keyword) + 1) : SubSeq(s, n, n + Len(keyword) - 1) = keyword

\* s.endswith(suffix)
endswith(s, suffix) ==
    /\ Len(s) >= Len(suffix)
    /\ SubSeq(s, Len(s) - Len(suffix) + 1, Len(s)) = suffix

raw_keywords ==
    {<<"r", "a", "w">>,
     <<".", "i", "d", "a", "t">>,
     <<".", "c", "e", "l">>,
     <<".", "f", "a", "s", "t", "q">>,
     <<".", "f", "q">>,
     <<".", "s", "r", "a">>,
     <<".", "b", "a", "m">>,
     <<".", "c", "r", "a", "m">>,
     <<"s", "i", "g", "n", "a", "l">>,
     <<"i", "n", "t", "e", "n", "s", "i", "t", "y">>,
     <<"r", "e", "a", "d", "s">>,
     <<"s", "e", "q", "u", "e", "n", "c", "i", "n", "g">>}

raw_infix == <<"_", "r", "a", "w", ".">>
raw_tar_suffix == <<"_", "r", "a", "w", ".", "t", "a", "r">>

\* Variant: the name is tested as listed, not lower-cased.
is_raw_case_sensitive(filename) ==
    \/ \E keyword \in raw_keywords : contains(filename, keyword)
    \/ contains(filename, raw_infix)
    \/ endswith(filename, raw_tar_suffix)

\* The value of is_raw for one filename.
is_raw(filename) ==
    LET filename_lower == lower(filename)
    IN \/ \E keyword \in raw_keywords : contains(filename_lower, keyword)
       \/ contains(filename_lower, raw_infix)
       \/ endswith(filename_lower, raw_tar_suffix)

\* Pieces the listed names are put together from: the keywords with and
\* without their dot, in either case, and pieces that hold no keyword.
NameParts ==
    {<<"r", "a", "w">>,
     <<"R", "A", "W">>,
     <<"i", "d", "a", "t">>,
     <<"I", "D", "A", "T">>,
     <<"c", "e", "l">>,
     <<"C", "e", "l">>,
     <<"f", "a", "s", "t", "q">>,
     <<"f", "q">>,
     <<"F", "Q">>,
     <<"s", "r", "a">>,
     <<"b", "a", "m">>,
     <<"c", "r", "a", "m">>,
     <<"s", "i", "g", "n", "a", "l">>,
     <<"S", "i", "g", "n", "a", "l">>,
     <<"i", "n", "t", "e", "n", "s", "i", "t", "y">>,
     <<"r", "e", "a", "d", "s">>,
     <<"s", "e", "q", "u", "e", "n", "c", "i", "n", "g">>,
     <<".">>,
     <<"_">>,
     <<"x">>,
     <<"g", "s", "e", "1">>,
     <<".", "t", "x", "t">>,
     <<"t", "a", "r">>}

RECURSIVE NamesOf(_)
NamesOf(n) ==
    IF n = 0 THEN {<<>>}
    ELSE LET shorter == NamesOf(n - 1)
         IN shorter \cup {s \o p : s \in shorter, p \in NameParts}

ListedNames == NamesOf(MaxParts) \ {<<>>}

\* The loop body of _check_raw_files for one listed name.
check_raw_files_classify ==
    /\ call_pc = "listed"
    /\ call_result' = [is_raw |-> is_raw(call_args.filename)]
    /\ call_pc' = "classified"
    /\ UNCHANGED <<call_args, disk, envVars, dsVars, taskVars, runVars>>

InitRaw ==
    /\ DatasetIdle
    /\ RunIdle
    /\ call_args \in [filename : ListedNames]
    /\ call_result = <<>>
    /\ call_pc = "listed"

NextRaw == check_raw_files_classify

SpecRaw == InitRaw /\ [][NextRaw]_vars

\* The name holds the word, in whatever case.
holds(s, word) ==
    \E n \in 0..(Len(s) - Len(word)) :
        \A m \in 1..Len(word) : lower_char(s[n + m]) = word[m]

stated_keywords ==
    {<<"r", "a", "w">>,
     <<"i", "d", "a", "t">>,
     <<"c", "e", "l">>,
     <<"f", "a", "s", "t", "q">>,
     <<"f", "q">>,
     <<"s", "r", "a">>,
     <<"b", "a", "m">>,
     <<"c", "r", "a", "m">>,
     <<"s", "i", "g", "n", "a", "l">>,
     <<"i", "n", "t", "e", "n", "s", "i", "t", "y">>,
     <<"r", "e", "a", "d", "s">>,
     <<"s", "e", "q", "u", "e", "n", "c", "i", "n", "g">>}

classified == call_pc = "classified"

\* C24 (as stated): a filename is classified as raw exactly when it holds, in
\* any case, one of the words raw, idat, cel, fastq, fq, sra, bam, cram,
\* signal, intensity, reads, sequencing.
C24_RawIffStatedKeyword ==
    classified =>
        (call_result.is_raw <=> \E word \in stated_keywords : holds(call_args.filename, word))

\* C24 (as amended): a filename is classified as raw exactly when it holds,
\* in any case, one of raw, .idat, .cel, .fastq, .fq, .sra, .bam, .cram,
\* signal, intensity, reads, sequencing; the classification is the same for
\* every spelling of the name in upper and lower case.
C24_RawIffKeyword ==
    classified =>
        /\ call_result.is_raw <=> \E word \in raw_keywords : holds(call_args.filename, word)
        /\ call_result.is_raw = is_raw(lower(call_args.filename))

\* An upper-case extension with its dot is classified as raw.
C24_Witness ==
    /\ classified
    /\ call_args.filename = <<".", "I", "D", "A", "T">>
    /\ call_result.is_raw

\* A name that holds "cel" without the dot is not classified as raw.
C24_WordWithoutDot ==
    /\ classified
    /\ call_args.filename = <<"c", "e", "l", ".", "t", "x", "t">>
    /\ ~call_result.is_raw

----------------------------------------------------------------------------
\* Identifier validation: GSEExtractor.validate_gse_ids.

MaxIds == 2

\* An item of the list that is no str.
NotAStr == <<"None">>

whitespace == {" ", "\n", "\t"}

digits == {"0", "1", "2", "3", "4", "5", "6", "7", "8", "9"}

\* str.upper, one character
upper_char(c) ==
    IF \E n \in 1..26 : ascii_lowercase[n] = c
    THEN ascii_uppercase[CHOOSE n \in 1..26 : ascii_lowercase[n] = c]
    ELSE c

\* str.upper
upper(s) == [n \in 1..Len(s) |-> upper_char(s[n])]

\* str.strip: the whitespace at both ends is dropped.
RECURSIVE strip(_)
strip(s) ==
    IF s = <<>> THEN s
    ELSE IF Head(s) \in whitespace THEN strip(Tail(s))
    ELSE IF s[Len(s)] \in whitespace THEN strip(SubSeq(s, 1, Len(s) - 1))
    ELSE s

\* re.match(r'^GSE\d+$', s): $ also matches before a newline that ends s.
re_match_gse(s) ==
    LET body == IF s # <<>> /\ s[Len(s)] = "\n" THEN SubSeq(s, 1, Len(s) - 1) ELSE s
    IN /\ Len(body) >= 4
       /\ SubSeq(body, 1, 3) = <<"G", "S", "E">>
       /\ \A n \in 4..Len(body) : body[n] \in digits

\* Variant: the identifier is stripped but keeps its case.
normalize_keeps_case(gse_id) == strip(gse_id)

\* gse_id.strip().upper()
normalize(gse_id) == upper(strip(gse_id))

\* The list valid_ids when the loop has ended.
RECURSIVE valid_ids(_)
valid_ids(ids) ==
    IF ids = <<>> THEN <<>>
    ELSE LET gse_id == Head(ids)
         IN IF gse_id # NotAStr /\ re_match_gse(normalize(gse_id))
            THEN <<normalize(gse_id)>> \o valid_ids(Tail(ids))
            ELSE valid_ids(Tail(ids))

\* set(l)
set(l) == {l[n] : n \in 1..Len(l)}

\* list(s): the elements of the set, each once, in an order the caller
\* cannot rely on.
lists_of(s) ==
    {l \in [1..Cardinality(s) -> s] : \A m, n \in 1..Cardinality(s) : l[m] = l[n] => m = n}

\* Strings the sources of identifiers can give: around a prefix and a
\* numeric suffix, well-formed or not, whitespace or nothing.
IdStrings ==
    {around[1] \o prefix \o suffix \o around[2] :
        around \in {<<<<>>, <<>>>>, <<<<" ">>, <<"\n">>>>},
        prefix \in {<<"G", "S", "E">>, <<"g", "s", "e">>, <<"G", "S">>},
        suffix \in {<<>>, <<"1">>, <<"2", "0">>, <<"1", "a">>}}

RECURSIVE ListsOf(_)
ListsOf(n) ==
    IF n = 0 THEN {<<>>}
    ELSE LET shorter == ListsOf(n - 1)
         IN shorter \cup {l \o <<x>> : l \in shorter, x \in IdStrings \cup {NotAStr}}

\* validate_gse_ids, the whole call.
validate_gse_ids ==
    /\ call_pc = "validate"
    /\ \E l \in lists_of(set(valid_ids(call_args.gse_ids))) :
           call_result' = [unique_ids |-> l]
    /\ call_pc' = "validated"
    /\ UNCHANGED <<call_args, disk, envVars, dsVars, taskVars, runVars>>

\* validate_gse_ids called on the list it returned.
validate_gse_ids_again ==
    /\ call_pc = "validated"
    /\ \E l \in lists_of(set(valid_ids(call_result.unique_ids))) :
           call_result' = [unique_ids |-> call_result.unique_ids, again |-> l]
    /\ call_pc' = "revalidated"
    /\ UNCHANGED <<call_args, disk, envVars, dsVars, taskVars, runVars>>

InitIds ==
    /\ DatasetIdle
    /\ RunIdle
    /\ call_args \in [gse_ids : ListsOf(MaxIds)]
    /\ call_result = <<>>
    /\ call_pc = "validate"

NextIds ==
    \/ validate_gse_ids
    \/ validate_gse_ids_again

SpecIds == InitIds /\ [][NextIds]_vars

\* The string is GSE, in any case, followed by one or more digits.
well_formed(s) ==
    /\ Len(s) >= 4
    /\ \A n \in 1..3 : lower_char(s[n]) = <<"g", "s", "e">>[n]
    /\ \A n \in 4..Len(s) : s[n] \in digits

validated == call_pc \in {"validated", "revalidated"}

given == set(call_args.gse_ids) \ {NotAStr}

\* Upper case, normalized twice as once, returned at most once.
normalized_once ==
    /\ \A x \in given : normalize(normalize(x)) = normalize(x)
    /\ \A m, n \in 1..Len(call_result.unique_ids) :
           call_result.unique_ids[m] = call_result.unique_ids[n] => m = n
    /\ \A y \in set(call_result.unique_ids) : well_formed(y) /\ upper(y) = y
    /\ call_pc = "revalidated" => set(call_result.again) = set(call_result.unique_ids)

\* C25 (as stated): validate_gse_ids accepts exactly the strings that are GSE
\* followed by one or more digits in any case, returns them in upper case,
\* each at most once, and normalizing twice is normalizing once.
C25_AcceptsExactlyWellFormed ==
    validated =>
        /\ \A x \in given : normalize(x) \in set(call_result.unique_ids) <=> well_formed(x)
        /\ normalized_once

\* C25 (as amended): validate_gse_ids accepts exactly the strings that,
\* with the whitespace around them dropped, are GSE followed by one or more
\* digits in any case; the rest as stated.
C25_AcceptsExactlyWellFormedStripped ==
    validated =>
        /\ \A x \in given :
               normalize(x) \in set(call_result.unique_ids) <=> well_formed(strip(x))
        /\ set(call_result.unique_ids) = {normalize(x) : x \in {y \in given : well_formed(strip(y))}}
        /\ normalized_once

\* Two spellings of one identifier and a string without numeric suffix give
\* the identifier once.
C25_Witness ==
    /\ call_pc = "revalidated"
    /\ call_args.gse_ids = <<<<"g", "s", "e", "1">>, <<"G", "S", "E", "1">>>>
    /\ call_result.unique_ids = <<<<"G", "S", "E", "1">>>>
    /\ call_result.again = call_result.unique_ids

\* A string with whitespace around it is accepted.
C25_PaddedAccepted ==
    /\ validated
    /\ call_args.gse_ids = <<<<" ", "g", "s", "e", "1", "\n">>, <<"G", "S">>>>
    /\ call_result.unique_ids = <<<<"G", "S", "E", "1">>>>

----------------------------------------------------------------------------
\* A listing whose names are not told apart by safe_filename, downloaded in
\* parallel mode.

\* Names an HTML index can list: any text between the anchor tags, the same
\* text more than once.
ListingNames == {FileName(i) : i \in Tasks} \cup {<<"f", Digits[1], "*">>}

InitDup ==
    /\ \E r \in 0..DatasetMaxRetries :
          config = [max_retries |-> r, verify_integrity |-> TRUE, parallel |-> TRUE,
                    workers |-> MaxWorkers, delay |-> 1]
    /\ \E n \in 2..MaxFiles :
          remote \in [1..n -> [filename : ListingNames, size : {1}]]
    /\ disk = [p \in Paths |-> NoFile]
    /\ phase = "pending"
    /\ metadata = NoMetadata
    /\ resolution = [search |-> "none", listing |-> "none"]
    /\ mode = "none"
    /\ download_results = <<>>
    /\ collected = {}
    /\ delays = 0
    /\ dataset_result = NoDataset
    /\ TaskInit({})
    /\ RunIdle
    /\ CallIdle

NextDup == NextPar

SpecDup == InitDup /\ [][NextDup]_vars

\* The task has sent its request and opens local_path for writing.
writing(i) == pc[i] = "transfer"

\* C26: within one dataset's parallel dispatch no two concurrently running
\* download tasks open the same local file for writing.
C26_DistinctLocalPaths ==
    \A i, j \in Tasks :
        (i # j /\ writing(i) /\ writing(j)) =>
            local_path(file_info(i)) # local_path(file_info(j))

\* Two tasks whose listed names differ write the same local file.
C26_SamePathTwoNames ==
    /\ writing(1) /\ writing(2)
    /\ file_info(1).filename # file_info(2).filename
    /\ local_path(file_info(1)) = local_path(file_info(2))

\* Tasks whose names safe_filename tells apart write different files.
ToldApartDistinctPaths ==
    \A i, j \in Tasks :
        (i # j /\ writing(i) /\ writing(j)
              /\ safe_filename(remote[i].filename) # safe_filename(remote[j].filename)) =>
            local_path(file_info(i)) # local_path(file_info(j))

----------------------------------------------------------------------------
\* The life of one identifier inside download_gse_dataset.

\* No call of _download_single_file has begun and no request of a transfer
\* was made.
no_transfer == \A i \in Tasks : pc[i] = "idle" /\ calls[i] = 0 /\ netCalls[i] = 0

ended_by_resolution ==
    /\ phase = "returned"
    /\ \/ dataset_result.status = "no_raw_data"
       \/ dataset_result.status = "failed" /\ dataset_result.error # "None"

\* Steps of pending -> resolving -> {no_raw_data | failed} and
\* resolving -> downloading -> {completed | partial | failed}; the resolver
\* is one step, so "resolved" stands for the end of resolving.
state_machine_step ==
    \/ phase' = phase
    \/ phase = "pending" /\ phase' = "resolved"
    \/ /\ phase = "resolved" /\ phase' = "returned"
       /\ dataset_result'.status \in {"no_raw_data", "failed"}
    \/ phase = "resolved" /\ phase' = "downloading"
    \/ /\ phase = "downloading" /\ phase' = "returned"
       /\ dataset_result'.status \in {"completed", "partial", "failed"}

\* C27: each identifier follows pending -> resolving -> {no_raw_data | failed}
\* or resolving -> downloading -> {completed | partial | failed}; no transfer
\* is attempted before resolution has finished, and a dataset that ends as
\* no_raw_data or failed by resolution has no FileResult and no transfer.
C27_StateMachine ==
    [][/\ state_machine_step
       /\ phase' \in {"pending", "resolved"} => no_transfer'
       /\ ended_by_resolution' => (dataset_result'.files = <<>> /\ no_transfer')]_vars

\* The same for every step but the one by which an exception of
\* _download_single_file leaves download_gse_dataset.
StateMachineUnlessRaised ==
    [][phase' # "raised" =>
          /\ state_machine_step
          /\ phase' \in {"pending", "resolved"} => no_transfer'
          /\ ended_by_resolution' => (dataset_result'.files = <<>> /\ no_transfer')]_vars

\* A dataset in the downloading state ends without a status.
C27_DownloadingRaised ==
    /\ phase = "raised"
    /\ mode = "sequential"
    /\ dataset_result = NoDataset

----------------------------------------------------------------------------
\* The choice of the dispatcher: download_gse_dataset with the parallel flag
\* on or off, on a directory of no, one or more one-byte raw files.

InitMode ==
    /\ \E p \in BOOLEAN :
          config = [max_retries |-> 0, verify_integrity |-> TRUE, parallel |-> p,
                    workers |-> MaxWorkers, delay |-> 1]
    /\ \E n \in 0..MaxFiles :
          remote = [i \in 1..n |-> [filename |-> FileName(i), size |-> 1]]
    /\ disk \in [Paths -> {NoFile, 1}]
    /\ phase = "pending"
    /\ metadata = NoMetadata
    /\ resolution = [search |-> "none", listing |-> "none"]
    /\ mode = "none"
    /\ download_results = <<>>
    /\ collected = {}
    /\ delays = 0
    /\ dataset_result = NoDataset
    /\ TaskInit({})
    /\ RunIdle
    /\ CallIdle

NextMode == Next

SpecMode == InitMode /\ [][NextMode]_vars

\* A pass of _download_files_parallel has left its mark: a task waits in the
\* pool, a future was collected, or two calls run at once.
parallel_dispatcher_used ==
    \/ \E i \in Tasks : pc[i] = "queued"
    \/ collected # {}
    \/ Cardinality(running) > 1

\* C28: download_gse_dataset uses the parallel dispatcher if and only if the
\* parallel flag is set and the dataset has more than one raw file; in every
\* other case it uses the sequential dispatcher.
C28_ModeSelection ==
    /\ mode = "none" => phase \in {"pending", "resolved", "returned"} /\ no_transfer
    /\ mode # "none" =>
          /\ mode = "parallel" <=> (config.parallel /\ Len(metadata.raw_files) > 1)
          /\ mode = "sequential" <=> (~config.parallel \/ Len(metadata.raw_files) <= 1)
          /\ mode = "sequential" => ~parallel_dispatcher_used
          /\ mode = "parallel" => delays = 0
          /\ (phase = "returned" /\ mode = "parallel") => collected = Files

\* The flag is set and the dataset has exactly one raw file: the sequential
\* dispatcher downloaded it.
C28_Witness ==
    /\ phase = "returned"
    /\ config.parallel
    /\ Len(metadata.raw_files) = 1
    /\ mode = "sequential"
    /\ dataset_result.status = "completed"
    /\ collected = {}

\* The flag is set and there are two raw files: both calls run at once.
C28_ParallelUsed ==
    /\ mode = "parallel"
    /\ Len(metadata.raw_files) > 1
    /\ Cardinality(running) > 1

----------------------------------------------------------------------------
\* _download_files_sequential with the inter-file delay switched off or on.

MaxDelay == 1

InitDelay ==
    /\ \E d \in 0..MaxDelay :
          config = [max_retries |-> 0, verify_integrity |-> TRUE, parallel |-> FALSE,
                    workers |-> 1, delay |-> d]
    /\ \E n \in 0..MaxFiles :
          remote = [i \in 1..n |-> [filename |-> FileName(i), size |-> 1]]
    /\ disk \in [Paths -> {NoFile, 1}]
    /\ phase = "pending"
    /\ metadata = NoMetadata
    /\ resolution = [search |-> "none", listing |-> "none"]
    /\ mode = "none"
    /\ download_results = <<>>
    /\ collected = {}
    /\ delays = 0
    /\ dataset_result = NoDataset
    /\ TaskInit({})
    /\ RunIdle
    /\ CallIdle

NextDelay == NextSeq

SpecDelay == InitDelay /\ [][NextDelay]_vars

\* Files of the listing that are not its last.
non_final(k) == IF k < Len(metadata.raw_files) THEN k ELSE Len(metadata.raw_files) - 1

\* C29: in sequential mode the files are transferred one at a time in listed
\* order, the FileResult list is in input order, and the delay is slept
\* after each non-final file and never after the last (a delay of 0 is not
\* slept at all).
C29_SequentialOrderAndDelay ==
    mode = "sequential" =>
        /\ Cardinality(running) <= 1
        /\ \A i \in Files : pc[i] # "idle" => Len(download_results) >= i - 1
        /\ \A i \in Files : i > Len(download_results) + 1 => (pc[i] = "idle" /\ calls[i] = 0)
        /\ \A k \in 1..Len(download_results) :
              /\ download_results[k].filename = metadata.raw_files[k].filename
              /\ download_results[k] = result[k]
        /\ delays * config.delay = non_final(Len(download_results)) * config.delay
        /\ config.delay = 0 => delays = 0
        /\ phase = "returned" => dataset_result.files = download_results

\* Two files were downloaded one after the other with one delay between.
C29_Witness ==
    /\ phase = "returned"
    /\ mode = "sequential"
    /\ config.delay > 0
    /\ Len(metadata.raw_files) = MaxFiles
    /\ Len(dataset_result.files) = MaxFiles
    /\ delays = MaxFiles - 1
    /\ \A i \in Files : calls[i] > 0

----------------------------------------------------------------------------
\* self.print_lock: the workers of one parallel dispatch, each inside
\* _download_single_file, at the grain of the `with self.print_lock:` blocks.
\* call_pc[i] is the position of worker i, call_result.lock the holder of the
\* lock, call_result.attempt[i] the loop variable of the retry loop.

Workers == 1..MaxWorkers

NoHolder == 0

\* The print statements under the lock: "file already exists", "resuming",
\* the progress line, "downloaded", "retrying in", "failed after".
PrintSites == {"exists", "resume", "progress", "success", "retry", "error"}

acquire_at(site) == <<"acquire", site>>
print_at(site) == <<"print", site>>

AcquirePositions == {acquire_at(site) : site \in PrintSites}
PrintPositions == {print_at(site) : site \in PrintSites}

\* Where the worker is while the network, the disk or the backoff has it.
TransferPositions == {<<"urlopen">>, <<"read">>, <<"write">>, <<"sleep">>}

\* The statement after each with block.
after_print(site) ==
    CASE site = "exists" -> <<"returned">>
      [] site = "resume" -> <<"urlopen">>
      [] site = "progress" -> <<"read">>
      [] site = "success" -> <<"returned">>
      [] site = "retry" -> <<"sleep">>
      [] site = "error" -> <<"returned">>

lock_step(i, position, holder) ==
    /\ call_pc' = [call_pc EXCEPT ![i] = position]
    /\ call_result' = [call_result EXCEPT !.lock = holder]
    /\ UNCHANGED <<call_args, disk, envVars, dsVars, taskVars, runVars>>

goto(i, positions) ==
    /\ \E position \in positions : call_pc' = [call_pc EXCEPT ![i] = position]
    /\ UNCHANGED <<call_result, call_args, disk, envVars, dsVars, taskVars, runVars>>

\* The except block of the retry loop: downloader.py:356-366.
except_block(i) ==
    IF call_result.attempt[i] < call_args.max_retries
    THEN acquire_at("retry") ELSE acquire_at("error")

\* Entering a with block: the worker waits until the lock is free.
print_lock_acquire(i) ==
    /\ call_pc[i] \in AcquirePositions
    /\ call_result.lock = NoHolder
    /\ lock_step(i, print_at(call_pc[i][2]), i)

\* Variant: the lock is kept over the backoff sleep.
print_lock_release_after_sleep(i) ==
    /\ call_pc[i] \in PrintPositions
    /\ lock_step(i, after_print(call_pc[i][2]),
                 IF call_pc[i][2] = "retry" THEN i ELSE NoHolder)

\* The print and the end of the with block.
print_lock_release(i) ==
    /\ call_pc[i] \in PrintPositions
    /\ lock_step(i, after_print(call_pc[i][2]), NoHolder)

\* downloader.py:322-333: the file is there and complete, or the loop begins.
single_file_begin(i) ==
    /\ call_pc[i] = <<"begin">>
    /\ goto(i, {acquire_at("exists"), <<"attempt">>})

\* downloader.py:381-394: a partial file is resumed, or the request is built.
with_progress_begin(i) ==
    /\ call_pc[i] = <<"attempt">>
    /\ goto(i, {acquire_at("resume"), <<"urlopen">>})

\* downloader.py:398-409: urlopen answers or raises.
with_progress_urlopen(i) ==
    /\ call_pc[i] = <<"urlopen">>
    /\ goto(i, {<<"read">>, except_block(i)})

\* downloader.py:415-417: response.read gives a chunk, the end, or raises.
with_progress_read(i) ==
    /\ call_pc[i] = <<"read">>
    /\ goto(i, {<<"write">>, <<"verify">>, except_block(i)})

\* downloader.py:419-434: f.write, then the progress line when a second passed.
with_progress_write(i) ==
    /\ call_pc[i] = <<"write">>
    /\ goto(i, {<<"read">>, acquire_at("progress"), except_block(i)})

\* downloader.py:340-345: the size check passes or raises.
single_file_verify(i) ==
    /\ call_pc[i] = <<"verify">>
    /\ goto(i, {acquire_at("success"), except_block(i)})

\* downloader.py:363: time.sleep(retry_delay), then the next pass.
single_file_sleep(i) ==
    /\ call_pc[i] = <<"sleep">>
    /\ call_pc' = [call_pc EXCEPT ![i] = <<"attempt">>]
    /\ call_result' = [call_result EXCEPT !.attempt[i] = @ + 1]
    /\ UNCHANGED <<call_args, disk, envVars, dsVars, taskVars, runVars>>

\* What a worker does next outside the with blocks.
worker_step(i) ==
    \/ single_file_begin(i)
    \/ with_progress_begin(i)
    \/ with_progress_urlopen(i)
    \/ with_progress_read(i)
    \/ with_progress_write(i)
    \/ single_file_verify(i)
    \/ single_file_sleep(i)

InitLock ==
    /\ DatasetIdle
    /\ RunIdle
    /\ call_args \in [max_retries : 0..DatasetMaxRetries]
    /\ call_result = [lock |-> NoHolder, attempt |-> [i \in Workers |-> 0]]
    /\ call_pc = [i \in Workers |-> <<"begin">>]

NextLock ==
    \/ \E i \in Workers : print_lock_acquire(i)
    \/ \E i \in Workers : print_lock_release(i)
    \/ \E i \in Workers : worker_step(i)

SpecLock == InitLock /\ [][NextLock]_vars

\* C30: the shared output lock is held only while printing: no worker holds
\* it while issuing a request, reading a chunk, writing to disk or sleeping
\* for retry_delay, so a worker's transfer is never blocked by another
\* worker's transfer or backoff.
C30_LockOnlyWhilePrinting ==
    \A i \in Workers :
        /\ call_result.lock = i <=> call_pc[i] \in PrintPositions
        /\ call_pc[i] \in TransferPositions =>
              /\ call_result.lock # i
              /\ ENABLED worker_step(i)
        /\ (call_pc[i] \in AcquirePositions /\ call_result.lock # NoHolder) =>
              /\ call_pc[call_result.lock] \in PrintPositions
              /\ ENABLED print_lock_release(call_result.lock)

\* One worker waits for the lock to report its retry while the other prints
\* its progress line in the middle of a transfer.
C30_Witness ==
    /\ call_result.lock = 1
    /\ call_pc[1] = print_at("progress")
    /\ call_pc[2] = acquire_at("retry")

\* One worker sleeps for retry_delay while the other reads a chunk.
C30_SleepBesideTransfer ==
    /\ call_pc[1] = <<"sleep">>
    /\ call_pc[2] = <<"read">>
    /\ call_result.lock = NoHolder

----------------------------------------------------------------------------
\* download_multiple_datasets with its calls of download_gse_dataset carried
\* out by the dispatchers and their tasks: the loop of downloader.py:484-495
\* around the dataset of downloader.py:208-266.  No dataset is in progress
\* while phase is "between".

MaxRunDatasets == 2

\* The locals of download_gse_dataset and of its tasks, as they are before
\* a call and after it has ended.
dataset_locals_reset ==
    /\ metadata' = NoMetadata
    /\ resolution' = [search |-> "none", listing |-> "none"]
    /\ mode' = "none"
    /\ download_results' = <<>>
    /\ collected' = {}
    /\ delays' = 0
    /\ dataset_result' = NoDataset
    /\ pc' = [i \in Tasks |-> "idle"]
    /\ attempt' = [i \in Tasks |-> 0]
    /\ error_msg' = [i \in Tasks |-> "None"]
    /\ req' = [i \in Tasks |-> NoReq]
    /\ resp' = [i \in Tasks |-> NoResp]
    /\ result' = [i \in Tasks |-> NoResult]
    /\ fails' = [i \in Tasks |-> 0]
    /\ succeeded' = [i \in Tasks |-> FALSE]
    /\ sleeps' = [i \in Tasks |-> 0]
    /\ calls' = [i \in Tasks |-> 0]
    /\ netCalls' = [i \in Tasks |-> 0]
    /\ entry' = [i \in Tasks |-> NoFile]

\* downloader.py:487, the call: a new dataset, with whatever its
\* supplementary directory lists; the output directory is the run's.
download_gse_dataset_call ==
    /\ alive
    /\ run_pc = "loop"
    /\ run_i < Len(gse_ids)
    /\ phase = "between"
    /\ run_pc' = "dataset"
    /\ \E n \in 0..MaxFiles :
          remote' = [i \in 1..n |-> [filename |-> FileName(i), size |-> 1]]
    /\ phase' = "pending"
    /\ UNCHANGED <<metadata, resolution, mode, download_results, collected, delays,
                   dataset_result>>
    /\ UNCHANGED <<gse_ids, outcomes, status_file, download_status, run_results, run_i,
                   summary, exit_code, prior, saves, save_ok, last_save>>
    /\ UNCHANGED <<config, disk, taskVars, callVars>>

\* downloader.py:487-495 after the call returned: the result is appended and
\* stored under its identifier.
download_multiple_datasets_record ==
    /\ alive
    /\ run_pc = "dataset"
    /\ phase = "returned"
    /\ LET r == [gse_id |-> gse_ids[run_i + 1], status |-> dataset_result.status,
                 error |-> dataset_result.error, files |-> dataset_result.files]
       IN  /\ run_results' = Append(run_results, r)
           /\ IF download_status.kind = "dict"
                 THEN /\ download_status' = dict_set(download_status, r.gse_id, r)
                      /\ run_i' = run_i + 1
                      /\ run_pc' = IF save_due(run_i + 1) THEN "save_periodic"
                                   ELSE IF run_i + 1 = Len(gse_ids) THEN "save_final"
                                   ELSE "loop"
                 ELSE /\ run_pc' = "raised"
                      /\ UNCHANGED <<download_status, run_i>>
    /\ phase' = "between"
    /\ remote' = <<>>
    /\ dataset_locals_reset
    /\ UNCHANGED <<gse_ids, outcomes, status_file, summary, exit_code, prior, saves,
                   save_ok, last_save>>
    /\ UNCHANGED <<config, disk, callVars>>

\* The call raised: nothing in download_multiple_datasets catches it.
download_multiple_datasets_propagate ==
    /\ alive
    /\ run_pc = "dataset"
    /\ phase = "raised"
    /\ run_pc' = "raised"
    /\ phase' = "between"
    /\ remote' = <<>>
    /\ dataset_locals_reset
    /\ UNCHANGED <<gse_ids, outcomes, status_file, download_status, run_results, run_i,
                   summary, exit_code, prior, saves, save_ok, last_save>>
    /\ UNCHANGED <<config, disk, callVars>>

InitEnd ==
    /\ \E p \in BOOLEAN :
          config = [max_retries |-> 0, verify_integrity |-> TRUE,
                    parallel |-> p, workers |-> MaxWorkers, delay |-> 1]
    /\ remote = <<>>
    /\ disk = [p \in Paths |-> NoFile]
    /\ phase = "between"
    /\ metadata = NoMetadata
    /\ resolution = [search |-> "none", listing |-> "none"]
    /\ mode = "none"
    /\ download_results = <<>>
    /\ collected = {}
    /\ delays = 0
    /\ dataset_result = NoDataset
    /\ TaskInit({})
    /\ \E n \in 1..MaxRunDatasets : gse_ids = [k \in 1..n |-> GseIds[k]]
    /\ outcomes = {}
    /\ status_file = MissingFile
    /\ prior = status_file
    /\ last_save = status_file
    /\ download_status = EmptyDict
    /\ run_results = <<>>
    /\ run_i = 0
    /\ run_pc = "called"
    /\ summary = NoSummary
    /\ exit_code = None
    /\ saves = 0
    /\ save_ok = FALSE
    /\ CallIdle

NextEnd ==
    \/ download_multiple_datasets_begin
    \/ download_gse_dataset_call
    \/ get_gse_metadata
    \/ download_gse_dataset_dispatch
    \/ download_files_sequential_append
    \/ download_files_sequential_raise
    \/ \E i \in Tasks : executor_run(i)
    \/ \E i \in Tasks : as_completed_collect(i)
    \/ download_gse_dataset_return
    \/ \E i \in Tasks : phase = "downloading" /\ download_single_file(i)
    \/ download_multiple_datasets_record
    \/ download_multiple_datasets_propagate
    \/ save_download_status_open
    \/ save_download_status_write
    \/ main_exit

SpecEnd == InitEnd /\ [][NextEnd]_vars

\* A task of the current dataset waits in the pool or runs.
tasks_active == \E i \in Tasks : pc[i] = "queued" \/ i \in running

\* C31: self.download_status is read and written only by the thread that
\* runs download_multiple_datasets: no step taken while a task waits or runs
\* changes it, and no step of a task changes it.
C31_StatusOnlyByOrchestrator ==
    [][/\ tasks_active => download_status' = download_status
       /\ (phase = "downloading" /\ pc' # pc) => download_status' = download_status
       /\ download_status' # download_status =>
             /\ run_pc \in {"called", "dataset"}
             /\ phase \in {"between", "returned"}]_vars

\* The first dataset's result, of two files downloaded in parallel, is in
\* the mapping while both tasks of the second dataset run.
C31_Witness ==
    /\ run_i = 1
    /\ dict_keys(download_status) = {GseIds[1]}
    /\ Len(dict_get(download_status, GseIds[1]).files) = 2
    /\ mode = "parallel"
    /\ Cardinality(running) = 2

\* C32: datasets are processed strictly one after the other in input order:
\* a dataset's result is recorded only when every one of its tasks has
\* ended, and resolution of the next identifier starts only after that, in
\* sequential and in parallel mode alike.
C32_OneDatasetAtATime ==
    [][/\ run_i' # run_i =>
             /\ run_i' = run_i + 1
             /\ ~tasks_active
             /\ \A i \in Files : pc[i] \in {"done", "raised"}
             /\ Len(dataset_result.files) = Len(metadata.raw_files)
             /\ dict_get(download_status', gse_ids[run_i + 1]) = run_results'[run_i + 1]
             /\ run_results'[run_i + 1].files = dataset_result.files
       /\ (phase' = "pending" /\ phase # "pending") =>
             /\ ~tasks_active
             /\ Len(run_results) = run_i
             /\ \A k \in 1..run_i :
                   /\ run_results[k].gse_id = gse_ids[k]
                   /\ dict_get(download_status, gse_ids[k]) = run_results[k]
       /\ tasks_active' => (run_pc' = "dataset" /\ Len(run_results') = run_i')]_vars

\* Two datasets of two files each went through the pool one after the other.
C32_Witness ==
    /\ run_pc = "returned"
    /\ config.parallel
    /\ Len(gse_ids) = 2
    /\ \A k \in 1..2 :
          /\ Len(run_results[k].files) = 2
          /\ run_results[k].status = "completed"
          /\ run_results[k].gse_id = GseIds[k]

\* Every step that is enabled is taken in the end: no request hangs, no
\* thread is starved.
FairSpecEnd == SpecEnd /\ WF_vars(NextEnd)

terminal_statuses == {"completed", "partial", "failed", "no_raw_data"}

\* C33: download_multiple_datasets over a finite list ends by returning a
\* RunSummary, never otherwise; every dataset has a terminal status, every
\* raw file a FileResult, after at most max_retries + 1 transfer attempts.
C33_EndsWithSummary ==
    /\ run_pc # "raised"
    /\ \A i \in Tasks : calls[i] <= config.max_retries + 1
    /\ run_pc = "returned" =>
          /\ summary.kind = "summary"
          /\ Len(summary.results) = Len(gse_ids)
          /\ \A k \in 1..Len(gse_ids) :
                /\ summary.results[k].status \in terminal_statuses
                /\ \A f \in 1..Len(summary.results[k].files) :
                      summary.results[k].files[f].status \in {"completed", "failed"}

\* The run raised out of its second dataset: no summary, one result lost.
C33_RaisedWithoutSummary ==
    /\ run_pc = "raised"
    /\ run_i = 1
    /\ summary = NoSummary
    /\ exit_code = 1

\* The call ends, by returning or by raising: nothing hangs.
ReturnsOrRaises == <>(run_pc \in {"returned", "raised"})

\* Every call that returns gives a summary with a terminal status for every
\* identifier.
ReturnedWithSummary ==
    /\ \A i \in Tasks : calls[i] <= config.max_retries + 1
    /\ run_pc = "returned" =>
          /\ summary.kind = "summary"
          /\ Len(summary.results) = Len(gse_ids)
          /\ \A k \in 1..Len(gse_ids) : summary.results[k].status \in terminal_statuses

\* ---------------------------------------------------------------------
\* safe_filename called on its own (utils.py:183-207).

MaxNameLen == 3

\* Characters a file name is made of: the nine unsafe ones, the two that are
\* stripped, the replacement character and an ordinary one.
NameChars == unsafe_chars \cup {".", " ", "_", "a"}

RECURSIVE NamesUpTo(_)
NamesUpTo(n) ==
    IF n = 0 THEN {<<>>}
    ELSE LET shorter == NamesUpTo(n - 1)
         IN shorter \cup {s \o <<c>> : s \in shorter, c \in NameChars}

\* safe_filename, the whole call.
safe_filename_call ==
    /\ call_pc = "safe_filename"
    /\ call_result' = [safe_name |-> safe_filename(call_args.filename)]
    /\ call_pc' = "named"
    /\ UNCHANGED <<call_args, disk, envVars, dsVars, taskVars, runVars>>

\* safe_filename called on the name it returned.
safe_filename_again ==
    /\ call_pc = "named"
    /\ call_result' = [safe_name |-> call_result.safe_name,
                       again |-> safe_filename(call_result.safe_name)]
    /\ call_pc' = "renamed"
    /\ UNCHANGED <<call_args, disk, envVars, dsVars, taskVars, runVars>>

InitName ==
    /\ DatasetIdle
    /\ RunIdle
    /\ call_args \in [filename : NamesUpTo(MaxNameLen)]
    /\ call_result = <<>>
    /\ call_pc = "safe_filename"

NextName ==
    \/ safe_filename_call
    \/ safe_filename_again

SpecName == InitName /\ [][NextName]_vars

named == call_pc \in {"named", "renamed"}

\* The character the result holds in the place of c.
replaced_char(c) == IF c \in unsafe_chars THEN "_" ELSE c

kept(c) == replaced_char(c) \notin {".", " "}

\* The result is the name from its first to its last kept character, the
\* unsafe ones replaced; the placeholder when no character is kept.
replaced_and_stripped(filename, safe_name) ==
    IF \A k \in 1..Len(filename) : ~kept(filename[k])
        THEN safe_name = unnamed_file
        ELSE \E a, b \in 1..Len(filename) :
                /\ a <= b
                /\ kept(filename[a]) /\ kept(filename[b])
                /\ \A k \in 1..Len(filename) : (k < a \/ k > b) => ~kept(filename[k])
                /\ Len(safe_name) = b - a + 1
                /\ \A k \in a..b : safe_name[k - a + 1] = replaced_char(filename[k])

\* C34: safe_filename replaces each unsafe character with _, strips leading
\* and trailing '.' and space and substitutes the placeholder for an empty
\* result; the result is non-empty, holds no unsafe character, neither
\* starts nor ends with '.' or space, and safe_filename leaves it unchanged.
C34_SafeFilename ==
    named =>
        LET safe_name == call_result.safe_name
        IN  /\ replaced_and_stripped(call_args.filename, safe_name)
            /\ safe_name # <<>>
            /\ \A k \in 1..Len(safe_name) : safe_name[k] \notin unsafe_chars
            /\ safe_name[1] \notin {".", " "}
            /\ safe_name[Len(safe_name)] \notin {".", " "}
            /\ call_pc = "renamed" => call_result.again = safe_name

\* A name of a dot, a separator and a space gives "_", and "_" itself.
C34_Witness ==
    /\ call_pc = "renamed"
    /\ call_args.filename = <<".", "/", " ">>
    /\ call_result.safe_name = <<"_">>
    /\ call_result.again = <<"_">>

\* A name of dots and spaces only gives the placeholder.
C34_Placeholder ==
    /\ call_pc = "renamed"
    /\ call_args.filename = <<".", " ", ".">>
    /\ call_result.safe_name = unnamed_file
    /\ call_result.again = unnamed_file

\* ---------------------------------------------------------------------
\* A local file larger than expected, in one call of _download_single_file.

\* The local file of task i is larger than the size the listing gave.
oversized(i) ==
    /\ expected_size(i) # None
    /\ disk[local_path(file_info(i))] # NoFile
    /\ disk[local_path(file_info(i))] > expected_size(i)

\* The request under way was built while the local file was oversized.
requested_oversized(i) ==
    /\ expected_size(i) # None
    /\ req[i] # NoReq
    /\ req[i].existing # NoFile
    /\ req[i].existing > expected_size(i)

\* C35: a transfer that leaves the local file larger than expected is, with
\* verification on, a failed attempt; the next request carries no Range
\* header and opens the file for writing from the start; when the server then
\* sends the whole file, the file has the expected size and the result is
\* completed.
C35_OversizedRecovery ==
    [][/\ (pc[1] = "verify" /\ pc'[1] # "verify" /\ oversized(1)
              /\ config.verify_integrity) =>
             /\ fails'[1] = fails[1] + 1
             /\ error_msg'[1] = "ValueError"
             /\ ~succeeded'[1]
             /\ IF retries_left(1)
                   THEN pc'[1] = "sleep"
                   ELSE pc'[1] = "done" /\ result'[1].status = "failed"
       /\ (pc[1] = "attempt" /\ pc'[1] = "transfer" /\ oversized(1)) =>
             /\ ~req'[1].range
             /\ req'[1].resume_pos = 0
             /\ req'[1].mode = "wb"
       /\ (pc[1] = "transfer" /\ pc'[1] = "verify" /\ requested_oversized(1)
              /\ resp'[1] = "rest") =>
             disk'[local_path(file_info(1))] = expected_size(1)
       /\ (pc[1] = "verify" /\ pc'[1] # "verify" /\ requested_oversized(1)
              /\ resp[1] = "rest") =>
             /\ pc'[1] = "done"
             /\ succeeded'[1]
             /\ result'[1].status = "completed"
             /\ result'[1].size_bytes = expected_size(1)
             /\ disk'[local_path(file_info(1))] = expected_size(1)]_vars

\* A partial file, a server that ignored Range, the whole body appended, the
\* attempt failed, the retry without Range, the file complete.
C35_Witness ==
    /\ pc[1] = "done"
    /\ config.verify_integrity
    /\ entry[1] = 1
    /\ expected_size(1) = 2
    /\ calls[1] = 2
    /\ fails[1] = 1
    /\ error_msg[1] = "ValueError"
    /\ req[1].existing = 3
    /\ ~req[1].range
    /\ req[1].mode = "wb"
    /\ resp[1] = "rest"
    /\ disk[local_path(file_info(1))] = 2
    /\ result[1].status = "completed"
    /\ result[1].size_bytes = 2

\* Without verification the oversized file is the completed result.
C35_OversizedCompleted ==
    /\ pc[1] = "done"
    /\ ~config.verify_integrity
    /\ oversized(1)
    /\ resp[1] = "whole"
    /\ result[1].status = "completed"

\* ---------------------------------------------------------------------
\* A run over identifiers other than those of the status file it finds.

\* The status file of an earlier run: one identifier that is not asked for
\* again, one that is.
EarlierStatus ==
    json_dump(dict_set(dict_set(EmptyDict, GseIds[1],
                                dataset_returns(GseIds[1], <<FileOk, FileSynthetic>>)),
                       GseIds[2], dataset_returns(GseIds[2], <<FileFailed>>)))

InitFrame ==
    /\ DatasetIdle
    /\ \E n \in 1..MaxDatasets : gse_ids = [k \in 1..n |-> GseIds[k + 1]]
    /\ outcomes = FileLists
    /\ status_file = EarlierStatus
    /\ prior = status_file
    /\ last_save = status_file
    /\ download_status = EmptyDict
    /\ run_results = <<>>
    /\ run_i = 0
    /\ run_pc = "called"
    /\ summary = NoSummary
    /\ exit_code = None
    /\ saves = 0
    /\ save_ok = FALSE
    /\ CallIdle

NextFrame == NextRun

SpecFrame == InitFrame /\ [][NextFrame]_vars

\* Identifiers of the earlier status file that the run is not given.
other_ids == dict_keys(prior) \ set(gse_ids)

\* The mapping in memory holds the entries of the other identifiers as loaded.
others_kept_in_memory ==
    run_pc # "called" =>
        \A key \in other_ids :
            /\ key \in dict_keys(download_status)
            /\ dict_get(download_status, key) = dict_get(json_load(prior), key)

\* The status file holds the entries of the other identifiers as it did.
others_kept_in_file ==
    /\ status_file.kind = "object"
    /\ \A key \in other_ids :
          /\ key \in dict_keys(status_file)
          /\ dict_get(status_file, key) = dict_get(prior, key)

C36_EntryLost ==
    /\ run_pc = "returned"
    /\ ~save_ok
    /\ other_ids = {GseIds[1]}
    /\ status_file = TruncatedFile

====
